---------------------------- MODULE Spec2Model ----------------------------
(***************************************************************************)
(* A model of the adaptive search-and-validation loop of the prospecting   *)
(* service: the JSON-file storage layer (companies, stats, learning and    *)
(* cache files), the learning accumulator, the result cache and the search *)
(* orchestrator (the sequential request handler and the fan-out tasks).    *)
(*                                                                         *)
(* Every storage mutation of the source is a read of the whole file, an    *)
(* await, and a write of the whole file.  The model keeps that shape: a    *)
(* task reads a file into a local snapshot in one step and writes the      *)
(* modified snapshot back in a later step, so that the steps of other      *)
(* tasks may fall between the two.                                         *)
(*                                                                         *)
(* Time is Date.now() in milliseconds, counted from a small epoch: only    *)
(* differences of timestamps are ever used by the code.  A timestamp field *)
(* that a record does not have is 0 (Date.now() is never 0).               *)
(***************************************************************************)
EXTENDS Integers, Sequences, FiniteSets, TLC

(***************************************************************************)
(* Bounds of the model.                                                    *)
(***************************************************************************)
MaxRuns == 2          \* requests in one behaviour
MaxTicks == 1         \* clock advances in one behaviour
MaxIndex == 1         \* search indices 0..MaxIndex are requested
MaxResults == 1       \* results one scrape may yield
MaxTasks == 2         \* tasks (requests, fan-out tasks) in flight at once
MaxPreemptions == 2   \* times a task in flight is overtaken by another one
MaxBatches == 1       \* a fan-out request is among the first MaxBatches requests
MaxUpdates == 3       \* update_learning requests in one behaviour
MaxFound == 3         \* foundCompanies of an update_learning request
MaxCacheSets == 3     \* cache writes in one behaviour of the cache
MaxCacheTicks == 2    \* clock advances in one behaviour of the cache
MaxCapacity == 2      \* capacities 1..MaxCapacity of a cache table
MaxSaves == 3         \* saves of the learning record in one behaviour
MaxTerms == 10        \* maxTerms of generateSmartSearchTerms: 0..MaxTerms
MaxEntries == 2       \* entries of bestStrategies handed to the generator
MaxKeys == 3          \* keys configured for a provider: 0..MaxKeys
MaxValidations == 1   \* isCompanyWebsite calls in one behaviour
MaxStart == 4         \* searchIndex of a fan-out request: 0..MaxStart
MaxFanOuts == 1       \* fan-out requests followed to their response
MaxSearchTerms == 2   \* search terms of one run of main: 1..MaxSearchTerms
MaxPages == 3         \* maxPages of a searchGoogle call: 1..MaxPages
MaxPageResults == 2   \* results one page yields: 0..MaxPageResults
MaxScrapes == 1       \* searchGoogle calls made before main runs
MaxAnalyses == 1      \* analyzeCompany calls in one behaviour
MaxMerges == 2        \* merge_data requests in one behaviour
MaxDrives == 1        \* loops over the search route in one behaviour
MaxDriveSearches == 4 \* maxSearches of a loop: 1..MaxDriveSearches
MaxParallelSearches == 4 \* parallelSearches of a loop: 0..MaxParallelSearches
MaxTokens == 3        \* tokens of a title or of a model's response
MaxFinalValidations == 1 \* validateWithAI calls in one behaviour

(***************************************************************************)
(* Program constants.                                                      *)
(***************************************************************************)
SEARCH_TTL_MS == 86400000        \* 24 * 60 * 60 * 1000
ANALYSIS_TTL_MS == 604800000     \* 7 * 24 * 60 * 60 * 1000
MAX_PARALLEL == 3                \* Math.min(parallelSearches, 3)
MAX_SEARCHES == 5                \* maxSearches = 5, the default of the request
HANDLER_FIRST_PAGE == 2          \* for (pageNum = 2; pageNum <= 5; ...)
HANDLER_LAST_PAGE == 5

NEIGHBORHOODS ==
  << "Aldeota", "Meireles", "Mucuripe", "Varjota", "Papicu",
     "Centro", "Benfica", "Messejana", "Parangaba" >>

BUSINESS_TYPES ==
  << "restaurante", "advogado", "dentista", "salão beleza",
     "academia", "pet shop", "mecânica", "loja roupas" >>

(***************************************************************************)
(* Search terms.  searchTerm = `${business} ${neighborhood} fortaleza`; a  *)
(* term is kept as the pair it is built from.                              *)
(***************************************************************************)
NeighborhoodOf(i) == NEIGHBORHOODS[(i % Len(NEIGHBORHOODS)) + 1]

BusinessOf(i) ==
  BUSINESS_TYPES[((i \div Len(NEIGHBORHOODS)) % Len(BUSINESS_TYPES)) + 1]

SearchTermOf(i) == << BusinessOf(i), NeighborhoodOf(i) >>

SearchIndices == 0 .. MaxIndex

Terms == { SearchTermOf(i) : i \in 0 .. (MaxIndex + MAX_PARALLEL) }

NoTerm == << "", "" >>

(***************************************************************************)
(* URLs.  A URL is the pair <<head, tail>>: head is the part of the URL    *)
(* that the first 50 characters of its base64 encoding cover, tail is the  *)
(* rest.                                                                   *)
(***************************************************************************)
Urls == { << "h1", "x" >>, << "h1", "y" >> }

NoUrl == << "", "" >>

\* `company:${Buffer.from(result.url).toString('base64').substring(0, 50)}`
CompanyKey(url) == << "company", url[1], "" >>

\* `search:${Buffer.from(searchTerm).toString('base64')}`
SearchKey(term) == << "search", term[1], term[2] >>

\* a company id that is the whole base64 encoding of a URL (atob gives the URL)
UrlId(url) == << "b64", url[1], url[2] >>

\* atob(companyId): the URL an id decodes to, NoUrl when it decodes to none
Atob(id) == IF id[1] = "b64" THEN << id[2], id[3] >> ELSE NoUrl

(***************************************************************************)
(* Records of the companies file.                                          *)
(***************************************************************************)
CompanyRecord(url, term, foundAt) ==
  [ url |-> url, searchTerm |-> term, foundAt |-> foundAt,
    completedAt |-> 0, resultsCount |-> 0, savedAt |-> 0,
    deepAnalysis |-> FALSE ]

SearchCompletionRecord(term, completedAt, resultsCount) ==
  [ url |-> NoUrl, searchTerm |-> term, foundAt |-> 0,
    completedAt |-> completedAt, resultsCount |-> resultsCount, savedAt |-> 0,
    deepAnalysis |-> FALSE ]

\* a partial map (a JSON object): the keys present are its DOMAIN
EmptyMap == [ k \in {} |-> 0 ]

Has(map, k) == k \in DOMAIN map

\* obj[k] = v on a JSON object
Put(map, k, v) == [ x \in (DOMAIN map) \cup {k} |-> IF x = k THEN v ELSE map[x] ]

\* a variant that forgets the score a key has
GetAlways0(map, k) == 0

\* (obj[k] || 0)
GetOr0(map, k) == IF Has(map, k) THEN map[k] ELSE 0


(***************************************************************************)
(* storage.js: the companies file.                                         *)
(***************************************************************************)
\* saveCompany, after its read: companies[key] = { ...data, savedAt: Date.now() }
SaveCompany(companiesRead, key, data, t) ==
  Put(companiesRead, key, [ data EXCEPT !.savedAt = t ])

\* getCompany: companies[key] || null
GetCompany(companiesRead, key) ==
  IF Has(companiesRead, key)
    THEN [ found |-> TRUE, rec |-> companiesRead[key] ]
    ELSE [ found |-> FALSE, rec |-> CompanyRecord(NoUrl, NoTerm, 0) ]

\* getCompanies rebuilds the in-memory index when the file changed since the
\* last load: for every record with a searchTerm, its key is listed under
\* `searchTerm:${company.searchTerm}`.  The list is kept as a set of keys.
RebuildIndex(companiesRead) ==
  [ term \in Terms |->
      { k \in DOMAIN companiesRead : companiesRead[k].searchTerm = term } ]

\* saveCompany's index update: the key is added to its term's list
IndexAfterSave(idx, key, data) ==
  IF data.searchTerm \in Terms
    THEN [ idx EXCEPT ![data.searchTerm] = @ \cup {key} ]
    ELSE idx

\* getCompaniesBySearchTerm: companyKeys.map(key => companies[key]).filter(Boolean)
GetCompaniesBySearchTerm(companiesRead, idx, term) ==
  { companiesRead[k] : k \in { x \in idx[term] : Has(companiesRead, x) } }

(***************************************************************************)
(* storage.js: the stats file.                                             *)
(***************************************************************************)
DefaultStats ==
  [ totalSearches |-> 0, totalResults |-> 0,
    neighborhoods |-> EmptyMap, businesses |-> EmptyMap, metrics |-> 0 ]

\* incrementStat: stats[key] = (stats[key] || 0) + value
IncrementStat(statsRead, key, value) ==
  IF key = "totalSearches"
    THEN [ statsRead EXCEPT !.totalSearches = @ + value ]
    ELSE [ statsRead EXCEPT !.totalResults = @ + value ]

IncrementNeighborhoodHits(statsRead, neighborhood, hits) ==
  [ statsRead EXCEPT
      !.neighborhoods = Put(@, neighborhood, GetOr0(@, neighborhood) + hits) ]

IncrementBusinessHits(statsRead, business, hits) ==
  [ statsRead EXCEPT
      !.businesses = Put(@, business, GetOr0(@, business) + hits) ]

\* updatePerformanceMetric and recordUserAction rewrite the stats file with
\* one more sample or action recorded and every other field as it was read
RecordMetric(statsRead) == [ statsRead EXCEPT !.metrics = @ + 1 ]

(***************************************************************************)
(* Number.prototype.toFixed(2) of (num / den) * 100, as the characters of  *)
(* the string it returns: the value rounded to hundredths, half up.        *)
(***************************************************************************)
DigitChar(d) == << "0", "1", "2", "3", "4", "5", "6", "7", "8", "9" >>[d + 1]

RECURSIVE NatToChars(_)
NatToChars(n) ==
  IF n < 10 THEN << DigitChar(n) >>
            ELSE NatToChars(n \div 10) \o << DigitChar(n % 10) >>

\* a variant that drops the digits after the second decimal
HundredthsTruncated(num, den) == (10000 * num) \div den

Hundredths(num, den) == ((20000 * num) + den) \div (2 * den)

ToFixed2(num, den) ==
  LET h == Hundredths(num, den)
  IN  NatToChars(h \div 100) \o << "." >>
        \o << DigitChar((h % 100) \div 10), DigitChar(h % 10) >>

(***************************************************************************)
(* ai.js: the learning record.  successRate is the number 0 in the default *)
(* record and a string once updateLearning has stored it.                  *)
(***************************************************************************)
NumberZero == [ isString |-> FALSE, chars |-> << "0" >> ]

StringOf(chars) == [ isString |-> TRUE, chars |-> chars ]

DefaultLearning ==
  [ successfulSearches |-> << >>, failedSearches |-> << >>,
    bestNeighborhoods |-> EmptyMap, bestBusinessTypes |-> EmptyMap,
    bestStrategies |-> EmptyMap, totalSearches |-> 0,
    successRate |-> NumberZero ]

LearningEvent(term, neighborhood, businessType, strategy, found, t) ==
  [ term |-> term, neighborhood |-> neighborhood, businessType |-> businessType,
    strategy |-> strategy, companiesFound |-> found, timestamp |-> t ]

\* a strategy argument that is not a string (a number, an object)
NotAString == "(not a string)"

\* if (typeof strategy !== 'string') strategy = 'unknown'
StrategyOf(strategy) == IF strategy = NotAString THEN "unknown" ELSE strategy

\* a variant that counts a search twice
CountSearchTwice(learningRead) == [ learningRead EXCEPT !.totalSearches = @ + 2 ]

\* learning.totalSearches++
CountSearch(learningRead) == [ learningRead EXCEPT !.totalSearches = @ + 1 ]

\* a variant that takes a search that found nothing for a success
IsSuccessOrEmpty(found) == found >= 0

\* if (foundCompanies > 0)
IsSuccess(found) == found > 0

\* updateLearning, between its load and its save
UpdateLearning(learningRead, term, neighborhood, businessType, strategyArg, found, t) ==
  LET strategy == StrategyOf(strategyArg)
      counted == CountSearch(learningRead)
      scored ==
        IF IsSuccess(found)
          THEN [ counted EXCEPT
                   !.successfulSearches =
                      Append(@, LearningEvent(term, neighborhood, businessType,
                                              strategy, found, t)),
                   !.bestNeighborhoods =
                      Put(@, neighborhood, GetOr0(@, neighborhood) + found),
                   !.bestBusinessTypes =
                      Put(@, businessType, GetOr0(@, businessType) + found),
                   !.bestStrategies =
                      Put(@, strategy, GetOr0(@, strategy) + found) ]
          ELSE [ counted EXCEPT
                   !.failedSearches =
                      Append(@, LearningEvent(term, neighborhood, businessType,
                                              strategy, 0, t)) ]
  IN  [ scored EXCEPT
          !.successRate =
             StringOf(ToFixed2(Len(scored.successfulSearches),
                               scored.totalSearches)) ]

(***************************************************************************)
(* A learning record that lacks fields.  JSON.parse accepts it and         *)
(* loadLearningData returns it as it is (data || default: an object is     *)
(* truthy).  updateLearning supplies the three maps; it increments         *)
(* totalSearches and pushes onto a list without looking whether they are   *)
(* there, and pushing onto a missing list throws a TypeError.              *)
(***************************************************************************)
LearningFields == DOMAIN DefaultLearning

MapFields == { "bestStrategies", "bestNeighborhoods", "bestBusinessTypes" }

\* the object {}
EmptyObject == [ f \in {} |-> 0 ]

\* a record written before the three maps were introduced
LackingMaps ==
  [ successfulSearches |-> << >>, failedSearches |-> << >>,
    totalSearches |-> 0, successRate |-> NumberZero ]

\* if (!learning.bestStrategies) learning.bestStrategies = {}; (and so on)
EnsureMaps(learningRead) ==
  [ f \in DOMAIN learningRead \cup MapFields |->
      IF f \in DOMAIN learningRead THEN learningRead[f] ELSE EmptyMap ]

\* the list updateLearning pushes onto, and the list whose length it reads
ListsUsed(found) ==
  IF IsSuccess(found)
    THEN { "successfulSearches" }
    ELSE { "failedSearches", "successfulSearches" }

UpdateLearningThrows(learningRead, found) ==
  ~ (ListsUsed(found) \subseteq DOMAIN learningRead)

(***************************************************************************)
(* ai.js: generateSmartSearchTerms.  The maps of the learning record are   *)
(* read with Object.entries, so each is taken as the sequence of its       *)
(* << name, score >> entries in insertion order.  A term is the sequence   *)
(* of the pieces its template joins with spaces.                           *)
(***************************************************************************)
FORTALEZA_NEIGHBORHOODS ==
  << "Aldeota", "Meireles", "Mucuripe", "Varjota",
     "Papicu", "Praia de Iracema", "Cocó", "Luciano Cavalcante",
     "Dionísio Torres", "Joaquim Távora", "Centro", "Benfica",
     "Fátima", "Parquelândia", "Rodolfo Teófilo", "Messejana",
     "Cambeba", "Cidade dos Funcionários", "Edson Queiroz", "Passaré",
     "Lagoa Redonda", "Sapiranga", "José de Alencar", "Parangaba",
     "Montese", "Maraponga", "Antônio Bezerra", "Bom Jardim",
     "Cajazeiras", "Vila Pery", "Serrinha", "Mondubim",
     "Itaperi", "Dunas", "Salinas", "Sabiaguaba",
     "Água Fria", "Jangurussu", "Ancuri", "Pedras",
     "Guajeru", "Coaçu" >>

AI_BUSINESS_TYPES ==
  << "restaurante", "lanchonete", "pizzaria", "hamburgueria",
     "açaiteria", "padaria", "cafeteria", "bar",
     "petiscos", "delivery", "advogado", "escritório advocacia",
     "dentista", "clínica odontológica", "médico", "clínica médica",
     "psicólogo", "nutricionista", "salão beleza", "barbearia",
     "estética", "manicure", "depilação", "clínica estética",
     "spa", "academia", "personal trainer", "crossfit",
     "pilates", "yoga", "fisioterapia", "quiropraxia",
     "pet shop", "veterinário", "banho e tosa", "hotel para pets",
     "mecânica", "auto center", "lava jato", "auto elétrica",
     "borracharia", "loja roupas", "boutique", "moda feminina",
     "moda masculina", "calçados", "acessórios", "joalheria",
     "farmácia", "drogaria", "manipulação", "construtora",
     "engenharia", "reformas", "pinturas", "marcenaria",
     "vidraçaria", "serralheria", "contabilidade", "consultoria",
     "imobiliária", "corretor imóveis", "despachante", "advocacia empresarial",
     "escola", "curso", "reforço escolar", "idiomas",
     "pré-vestibular", "assistência técnica", "informática", "eletrônica",
     "fotografia", "decoração", "design interiores", "móveis planejados",
     "floricultura", "chaveiro", "lavanderia" >>

CANONICAL_STRATEGIES ==
  << "gmaps_local", "social_media", "new_business", "direct_web" >>

NEW_MODIFIERS ==
  << "inauguração", "novo", "nova", "acabou de abrir", "recém inaugurado" >>

TOP_NEIGHBORHOODS == 15
TOP_BUSINESS_TYPES == 20
TOP_STRATEGIES == 3
FIRST_WEIGHT == 4

Least(S) == CHOOSE x \in S : \A y \in S : x <= y

Greatest(S) == CHOOSE x \in S : \A y \in S : y <= x

RangeOf(seq) == { seq[i] : i \in 1 .. Len(seq) }

\* .sort((a, b) => b[1] - a[1]): by descending score, equal scores in the
\* order they had
RECURSIVE SortByScore(_)
SortByScore(entries) ==
  IF Len(entries) <= 1 THEN entries
  ELSE LET front == SortByScore(SubSeq(entries, 1, Len(entries) - 1))
           e == entries[Len(entries)]
           ahead == { i \in 1 .. Len(front) : front[i][2] >= e[2] }
           n == Cardinality(ahead)
       IN  SubSeq(front, 1, n) \o << e >> \o SubSeq(front, n + 1, Len(front))

\* .map(([name]) => name)
NamesOf(entries) == [ i \in 1 .. Len(entries) |-> entries[i][1] ]

Sorted(entries) == NamesOf(SortByScore(entries))

\* .slice(0, n)
Slice(seq, n) == SubSeq(seq, 1, IF Len(seq) < n THEN Len(seq) ELSE n)

\* [...sorted.slice(0, n), ...all.filter(x => !sorted.includes(x)).slice(0, n)]
Prioritized(sorted, all, n) ==
  Slice(sorted, n)
    \o Slice(SelectSeq(all, LAMBDA x : x \notin RangeOf(sorted)), n)

PriorityStrategies(sortedStrategies) ==
  IF Len(sortedStrategies) > 0
    THEN Slice(sortedStrategies, TOP_STRATEGIES) \o CANONICAL_STRATEGIES
    ELSE CANONICAL_STRATEGIES

\* the keys of strategyWeights: a key is created by its first assignment
RECURSIVE FirstOccurrences(_)
FirstOccurrences(seq) ==
  IF seq = << >> THEN << >>
  ELSE LET front == FirstOccurrences(SubSeq(seq, 1, Len(seq) - 1))
           x == seq[Len(seq)]
       IN  IF x \in RangeOf(front) THEN front ELSE Append(front, x)

\* strategyWeights[strategy] = Math.max(1, 4 - index): every assignment to a
\* key replaces the value, so the last index of a strategy decides
StrategyWeight(priorityStrategies, strategy) ==
  LET index ==
        Greatest({ i \in 1 .. Len(priorityStrategies) :
                     priorityStrategies[i] = strategy }) - 1
  IN  IF FIRST_WEIGHT - index > 1 THEN FIRST_WEIGHT - index ELSE 1

RECURSIVE SumOfWeights(_, _)
SumOfWeights(priorityStrategies, keys) ==
  IF keys = << >> THEN 0
  ELSE StrategyWeight(priorityStrategies, Head(keys))
         + SumOfWeights(priorityStrategies, Tail(keys))

TotalWeight(priorityStrategies) ==
  SumOfWeights(priorityStrategies, FirstOccurrences(priorityStrategies))

\* Math.floor((weight / totalWeight) * maxTerms)
StrategyCount(weight, totalWeight, maxTerms) ==
  (weight * maxTerms) \div totalWeight

\* a variant that hands every strategy as many tasks as its weight
LoopLengthIsWeight(weight, totalWeight, maxTerms, termsGenerated) == weight

\* for (let i = 0; i < strategyCount && termsGenerated < maxTerms; i++)
LoopLength(weight, totalWeight, maxTerms, termsGenerated) ==
  LET strategyCount == StrategyCount(weight, totalWeight, maxTerms)
      room == maxTerms - termsGenerated
  IN  IF strategyCount < room THEN strategyCount ELSE room

\* list[i % list.length], i counted from 0
AtModulo(list, i) == list[(i % Len(list)) + 1]

TermOf(strategy, business, neighborhood, i) ==
  CASE strategy = "gmaps_local" ->
         << business, neighborhood, "fortaleza", "maps" >>
    [] strategy = "social_media" ->
         << business, neighborhood, "site:instagram.com" >>
    [] strategy = "new_business" ->
         << business, AtModulo(NEW_MODIFIERS, i), neighborhood, "fortaleza" >>
    [] strategy = "direct_web" ->
         << business, neighborhood, "fortaleza", "-olx", "-mercadolivre" >>
    [] OTHER ->
         << business, neighborhood, "fortaleza" >>

SearchTask(strategy, priorityNeighborhoods, priorityBusinessTypes, i) ==
  LET neighborhood == AtModulo(priorityNeighborhoods, i)
      business == AtModulo(priorityBusinessTypes, i)
  IN  [ term |-> TermOf(strategy, business, neighborhood, i),
        neighborhood |-> neighborhood,
        businessType |-> business,
        platform |-> IF strategy = "gmaps_local" THEN "google_maps" ELSE "google",
        strategy |-> strategy ]

\* the loop over Object.entries(strategyWeights)
RECURSIVE TermsFor(_, _, _, _, _, _)
TermsFor(keys, priorityStrategies, priorityNeighborhoods, priorityBusinessTypes, maxTerms, termsGenerated) ==
  IF keys = << >> THEN << >>
  ELSE LET strategy == Head(keys)
           n == LoopLength(StrategyWeight(priorityStrategies, strategy),
                           TotalWeight(priorityStrategies), maxTerms,
                           termsGenerated)
           mine == [ j \in 1 .. n |->
                       SearchTask(strategy, priorityNeighborhoods,
                                  priorityBusinessTypes, j - 1) ]
       IN  mine \o TermsFor(Tail(keys), priorityStrategies,
                            priorityNeighborhoods, priorityBusinessTypes,
                            maxTerms, termsGenerated + n)

GenerateSmartSearchTerms(bestNeighborhoods, bestBusinessTypes, bestStrategies, maxTerms) ==
  LET priorityStrategies == PriorityStrategies(Sorted(bestStrategies))
  IN  TermsFor(FirstOccurrences(priorityStrategies), priorityStrategies,
               Prioritized(Sorted(bestNeighborhoods), FORTALEZA_NEIGHBORHOODS,
                           TOP_NEIGHBORHOODS),
               Prioritized(Sorted(bestBusinessTypes), AI_BUSINESS_TYPES,
                           TOP_BUSINESS_TYPES),
               maxTerms, 0)

(***************************************************************************)
(* The command-line build: isCompanyWebsite.  The page is reduced to the   *)
(* set of positive and the set of negative signals found on it; a model    *)
(* response is the sequence of its characters.                             *)
(***************************************************************************)
POSITIVE_SIGNALS == { "contact", "services", "location", "whatsapp", "pricing" }

NEGATIVE_SIGNALS == { "news", "directory", "social", "marketplace" }

NEGATIVE_FACTOR == 2
ACCEPT_SCORE == 3
REJECT_SCORE == 1
MAX_GEMINI_ATTEMPTS == 3

\* a variant that counts a negative signal once
ScoreNegativesOnce(positive, negative) ==
  Cardinality(positive) - Cardinality(negative)

\* Object.values(positive).filter(Boolean).length
\*   - (Object.values(negative).filter(Boolean).length * 2)
Score(positive, negative) ==
  Cardinality(positive) - (Cardinality(negative) * NEGATIVE_FACTOR)

\* "accept", "reject", or "ask" when the model is to be consulted
Heuristic(positive, negative) ==
  IF negative # {} THEN "reject"
  ELSE IF Score(positive, negative) >= ACCEPT_SCORE THEN "accept"
  ELSE IF Score(positive, negative) <= REJECT_SCORE THEN "reject"
  ELSE "ask"

WhiteSpace == { " " }

\* \w without the u flag: [A-Za-z0-9_]
WordChars ==
  { "a", "b", "c", "d", "e", "f", "g", "h", "i", "j", "k", "l", "m", "n",
    "o", "p", "q", "r", "s", "t", "u", "v", "w", "x", "y", "z",
    "A", "B", "C", "D", "E", "F", "G", "H", "I", "J", "K", "L", "M", "N",
    "O", "P", "Q", "R", "S", "T", "U", "V", "W", "X", "Y", "Z",
    "0", "1", "2", "3", "4", "5", "6", "7", "8", "9", "_" }

\* a variant that compares the characters as they are
MatchesExactly(c, upper, lower) == c = upper

\* the i flag: a letter of the pattern matches its upper and its lower case
MatchesLetter(c, upper, lower) == c \in { upper, lower }

\* \s*: the first position after the leading white space
RECURSIVE SkipWhiteSpace(_, _)
SkipWhiteSpace(chars, i) ==
  IF i <= Len(chars) /\ chars[i] \in WhiteSpace
    THEN SkipWhiteSpace(chars, i + 1)
    ELSE i

\* /^\s*SIM\b/i.test(chars)
TestSIM(chars) ==
  LET i == SkipWhiteSpace(chars, 1)
  IN  /\ Len(chars) >= i + 2
      /\ MatchesLetter(chars[i], "S", "s")
      /\ MatchesLetter(chars[i + 1], "I", "i")
      /\ MatchesLetter(chars[i + 2], "M", "m")
      /\ (Len(chars) = i + 2 \/ chars[i + 3] \notin WordChars)

\* /^\s*SIM\b/i.test(aiResponse || '')
IsCompany(aiResponse) ==
  TestSIM(IF aiResponse.isNull THEN << >> ELSE aiResponse.text)

\* (index + 1) % keys.length
RotateKey(index, keys) == (index + 1) % keys

\* Math.min(3, CONFIG.GEMINI_API_KEYS.length)
GeminiAttempts(keys) ==
  IF keys < MAX_GEMINI_ATTEMPTS THEN keys ELSE MAX_GEMINI_ATTEMPTS

(***************************************************************************)
(* The scraper of the command-line build (searchGoogle, part_000 570-742)  *)
(* and the decisions of the loop of main (913-964).                        *)
(***************************************************************************)
PAGE_SIZE == 10
DEFAULT_MAX_PAGES == 3
MIN_RESULTS == 3
MAX_RESULTS_PER_SEARCH == 8

\* const startParam = pageNum > 0 ? `&start=${pageNum * 10}` : ''
StartParam(pageNum) ==
  IF pageNum > 0 THEN << "start", pageNum * PAGE_SIZE >> ELSE << >>

\* the offset of the results a URL asks for: 0 without a start parameter
OffsetOf(startParam) == IF startParam = << >> THEN 0 ELSE startParam[2]

\* a variant that gives up on every challenge
AbortsOnCaptcha(hasCaptcha, isLoggedIn) == hasCaptcha

\* if (hasCaptcha) { if (isLoggedIn) {...} else { return {results: []} } }
Aborts(hasCaptcha, isLoggedIn) == hasCaptcha /\ ~isLoggedIn

\* a variant that stops on an empty first page too
StopsOnEmpty(found, pageNum) == found = 0

\* if (pageResults.length === 0 && pageNum > 0) break
Stops(found, pageNum) == found = 0 /\ pageNum > 0

\* a variant that leaves the loop at the first task that failed
BreakLoop(i, terms) == terms

\* `continue` (and the end of the loop body): the next task
ContinueLoop(i, terms) == i + 1

\* for (i = 0; i < Math.min(results.length, CONFIG.maxResultsPerSearch); i++)
Analyzed(results) ==
  IF results < MAX_RESULTS_PER_SEARCH THEN results ELSE MAX_RESULTS_PER_SEARCH

(***************************************************************************)
(* storage.js: the cache file.  A table (cache.searchResults or            *)
(* cache.companyAnalyses) is a JSON object; it is kept as the sequence of  *)
(* its entries in the object's key order, each [key, data, timestamp].     *)
(***************************************************************************)
EmptyCache == [ searchResults |-> << >>, companyAnalyses |-> << >> ]

CacheEntry(key, data, t) == [ key |-> key, data |-> data, timestamp |-> t ]

KeysOf(table) == { table[i].key : i \in 1 .. Len(table) }

PositionOf(table, key) ==
  IF key \in KeysOf(table)
    THEN CHOOSE i \in 1 .. Len(table) : table[i].key = key
    ELSE 0

\* table[key] = { data, timestamp }: an existing key keeps its place, a new
\* key goes last
TableSet(table, key, data, t) ==
  IF PositionOf(table, key) > 0
    THEN [ table EXCEPT ![PositionOf(table, key)] = CacheEntry(key, data, t) ]
    ELSE Append(table, CacheEntry(key, data, t))

\* entries.sort((a, b) => b[1].timestamp - a[1].timestamp): a stable sort,
\* newest first; entries of equal timestamp keep their order
RECURSIVE SortNewestFirst(_)
SortNewestFirst(table) ==
  IF Len(table) <= 1 THEN table
  ELSE LET front == SortNewestFirst(SubSeq(table, 1, Len(table) - 1))
           e == table[Len(table)]
           ahead == { i \in 1 .. Len(front) : front[i].timestamp >= e.timestamp }
           n == Cardinality(ahead)
       IN  SubSeq(front, 1, n) \o << e >> \o SubSeq(front, n + 1, Len(front))

\* a variant that keeps the first entries in key order
KeepFirst(table, capacity) ==
  IF Len(table) > capacity THEN SubSeq(table, 1, capacity) ELSE table

\* if (entries.length > capacity) table = fromEntries(sorted.slice(0, capacity))
KeepNewest(table, capacity) ==
  IF Len(table) > capacity
    THEN SubSeq(SortNewestFirst(table), 1, capacity)
    ELSE table

\* a variant that never expires an entry
IsPresent(table, key, t, ttl) == PositionOf(table, key) > 0

\* `cached && (Date.now() - cached.timestamp) < ttl`
IsFresh(table, key, t, ttl) ==
  /\ PositionOf(table, key) > 0
  /\ (t - table[PositionOf(table, key)].timestamp) < ttl

\* getCachedSearchResult / getCachedCompanyAnalysis on a table that was read
GetCached(table, key, t, ttl) ==
  IF IsFresh(table, key, t, ttl)
    THEN [ hit |-> TRUE, data |-> table[PositionOf(table, key)].data ]
    ELSE [ hit |-> FALSE, data |-> {} ]

\* setCachedSearchResult / setCachedCompanyAnalysis on a table that was read
SetCached(table, key, data, t, capacity) ==
  KeepNewest(TableSet(table, key, data, t), capacity)

SEARCH_CACHE_CAPACITY == 1000
ANALYSIS_CACHE_CAPACITY == 500

GetCachedSearchResult(cacheRead, term, t) ==
  GetCached(cacheRead.searchResults, term, t, SEARCH_TTL_MS)

SetCachedSearchResult(cacheRead, term, data, t) ==
  [ cacheRead EXCEPT
      !.searchResults = SetCached(@, term, data, t, SEARCH_CACHE_CAPACITY) ]

GetCachedCompanyAnalysis(cacheRead, id, t) ==
  GetCached(cacheRead.companyAnalyses, id, t, ANALYSIS_TTL_MS)

SetCachedCompanyAnalysis(cacheRead, id, data, t) ==
  [ cacheRead EXCEPT
      !.companyAnalyses = SetCached(@, id, data, t, ANALYSIS_CACHE_CAPACITY) ]

(***************************************************************************)
(* The state.                                                              *)
(***************************************************************************)
VARIABLES
  companies,          \* companies.json: key -> record
  companiesMtime,     \* modification time of companies.json
  companiesIndex,     \* storage._companiesIndex: term -> keys
  companiesLastLoad,  \* storage._companiesLastLoad
  stats,              \* stats.json
  learning,           \* learning.json
  cache,              \* cache.json
  now,                \* Date.now()
  ticks,              \* clock advances so far
  tasks,              \* the requests and fan-out tasks in flight
  runs,               \* requests accepted so far
  navigations,        \* term -> page.goto calls made for it
  savedKeys,          \* keys a completed saveCompany call has written
  learningUpdates,    \* updateLearning calls completed so far
  lastRun,            \* what the task that returned last returned
  running,            \* the task that took the last step (0: none)
  preemptions,        \* times a task in flight was overtaken so far
  learningBytes,      \* how much of the text of `learning` its file holds
  learningTmp,        \* the temporary file next to the learning file
  saver,              \* the save of the learning record in progress
  batch,              \* the last generateSmartSearchTerms call and its result
  apiKeys,            \* CONFIG.GEMINI_API_KEYS.length and MISTRAL_API_KEYS.length
  currentGeminiIndex, \* the rotation index of the Gemini keys
  currentMistralIndex,\* the rotation index of the Mistral keys
  aiCall,             \* the analyzeWithAI call in progress
  validation,         \* the isCompanyWebsite call in progress
  service,            \* geminiService and mistralService of src/api/ai.js
  fanout,             \* performParallelSearches: its promises and its response
  scraper,            \* the searchGoogle call in progress (command-line build)
  prospect,           \* the prospecting loop of main (command-line build)
  analysis,           \* the analyzeCompany call in progress
  sync,               \* the client of the sync route and its last merge
  driver,             \* the client that drives the search route in a loop
  aiValidation        \* the validateWithAI call of the search route

vars ==
  << companies, companiesMtime, companiesIndex, companiesLastLoad, stats,
     learning, cache, now, ticks, tasks, runs, navigations, savedKeys,
     learningUpdates, lastRun, running, preemptions, learningBytes,
     learningTmp, saver, batch, apiKeys, currentGeminiIndex,
     currentMistralIndex, aiCall, validation, service, fanout, scraper,
     prospect, analysis, sync, driver, aiValidation >>

\* the stores, the clock and the search requests
storeVars ==
  << companies, companiesMtime, companiesIndex, companiesLastLoad, stats,
     learning, cache, now, ticks, tasks, runs, navigations, savedKeys,
     learningUpdates, lastRun, running, preemptions >>

\* the term generator, the site validator and the model providers
aiVars ==
  << batch, apiKeys, currentGeminiIndex, currentMistralIndex, aiCall,
     validation, service, fanout, scraper, prospect, analysis, sync,
     driver, aiValidation >>

\* the scraper and the loop of the command-line build
cliVars == << scraper, prospect >>

\* the clients of the sync route and of the search route, and the final
\* validation of the search route
routeVars == << sync, driver, aiValidation >>

\* the model calls of the command-line build and the validator
callVars ==
  << apiKeys, currentGeminiIndex, currentMistralIndex, aiCall, validation >>

\* the learning file at the level of its bytes, and who writes it
fileVars == << learningBytes, learningTmp, saver >>

\* everything but the learning record and its file
otherThanLearning ==
  << companies, companiesMtime, companiesIndex, companiesLastLoad, stats,
     cache, now, ticks, tasks, runs, navigations, savedKeys, learningUpdates,
     lastRun, running, preemptions, aiVars >>

Slots == 1 .. MaxTasks

(***************************************************************************)
(* The storage calls a task has still to make, in order.  Each is a read   *)
(* of its file followed, after an await, by a write of the whole file.     *)
(***************************************************************************)
Call(f, key, term, rec, results, n) ==
  [ f |-> f, key |-> key, term |-> term, rec |-> rec, results |-> results, n |-> n ]

NoKey == << "", "", "" >>

NoRec == CompanyRecord(NoUrl, NoTerm, 0)

CallSaveCompany(key, rec) == Call("saveCompany", key, NoTerm, rec, {}, 0)

CallSetCachedSearchResult(term, results, timestamp) ==
  Call("setCachedSearchResult", NoKey, term, NoRec, results, timestamp)

CallIncrementStat(name, value) ==
  Call("incrementStat", << "stat", name, "" >>, NoTerm, NoRec, {}, value)

CallIncrementNeighborhoodHits(neighborhood, hits) ==
  Call("incrementNeighborhoodHits", << "stat", neighborhood, "" >>, NoTerm, NoRec, {}, hits)

CallIncrementBusinessHits(business, hits) ==
  Call("incrementBusinessHits", << "stat", business, "" >>, NoTerm, NoRec, {}, hits)

\* updateLearning(searchTerm, neighborhood, businessType, strategy, found)
CallUpdateLearning(term, neighborhood, businessType, strategy, found) ==
  Call("updateLearning", << neighborhood, businessType, strategy >>, term,
       NoRec, {}, found)

CallRecordMetric == Call("recordMetric", NoKey, NoTerm, NoRec, {}, 0)

CallSetCachedCompanyAnalysis(id, rec) ==
  Call("setCachedCompanyAnalysis", id, NoTerm, rec, {}, 0)

FileOf(call) ==
  CASE call.f = "saveCompany" -> "companies"
    [] call.f \in { "setCachedSearchResult", "setCachedCompanyAnalysis" } -> "cache"
    [] call.f = "updateLearning" -> "learning"
    [] OTHER -> "stats"

\* the three statistics every path of the handler adds its result count to
CallsCountResults(term, n) ==
  << CallIncrementStat("totalResults", n),
     CallIncrementNeighborhoodHits(term[2], n),
     CallIncrementBusinessHits(term[1], n) >>

(***************************************************************************)
(* Scraped results.  A result is kept as a record of the shape of the      *)
(* stored ones, with the fields a scraped result has (its url).  The page  *)
(* lists its links in the order of UrlOrder.                               *)
(***************************************************************************)
ResultItem(url) == CompanyRecord(url, NoTerm, 0)

UrlOrder == << << "h1", "x" >>, << "h1", "y" >> >>

RECURSIVE InPageOrder(_, _)
InPageOrder(urls, i) ==
  IF i > Len(UrlOrder) THEN << >>
  ELSE (IF UrlOrder[i] \in urls THEN << UrlOrder[i] >> ELSE << >>)
         \o InPageOrder(urls, i + 1)

RECURSIVE SaveEach(_, _, _)
\* for (const result of aiValidatedResults) await storage.saveCompany(key, {...})
SaveEach(urlSeq, term, timestamp) ==
  IF urlSeq = << >> THEN << >>
  ELSE << CallSaveCompany(CompanyKey(Head(urlSeq)),
                          CompanyRecord(Head(urlSeq), term, timestamp)) >>
         \o SaveEach(Tail(urlSeq), term, timestamp)

\* a variant that updates the learning record and marks the search as done
\* before it saves the companies
CallsLearningFirst(term, approved, timestamp) ==
  LET n == Cardinality(approved)
  IN  << CallUpdateLearning(term, term[2], term[1], "google_search", n),
         CallSaveCompany(SearchKey(term),
                         SearchCompletionRecord(term, timestamp, n)),
         CallSetCachedSearchResult(term, { ResultItem(u) : u \in approved },
                                   timestamp) >>
        \o SaveEach(InPageOrder(approved, 1), term, timestamp)

\* the persistence stage after a scrape (search.js 1284-1341 and 1754-1804)
CallsAfterScrape(term, approved, timestamp) ==
  LET n == Cardinality(approved)
  IN  IF n > 0
        THEN SaveEach(InPageOrder(approved, 1), term, timestamp)
               \o << CallSaveCompany(SearchKey(term),
                                     SearchCompletionRecord(term, timestamp, n)),
                     CallSetCachedSearchResult(term,
                        { ResultItem(u) : u \in approved }, timestamp),
                     CallIncrementStat("totalSearches", 1) >>
               \o CallsCountResults(term, n)
               \o << CallUpdateLearning(term, term[2], term[1], "google_search", n) >>
        ELSE << CallSaveCompany(SearchKey(term),
                                SearchCompletionRecord(term, timestamp, 0)),
                CallSetCachedSearchResult(term, {}, timestamp),
                CallUpdateLearning(term, term[2], term[1], "google_search", 0) >>

\* search.js 1343-1353: two performance metrics and one user action
CallsRecordSearch == << CallRecordMetric, CallRecordMetric, CallRecordMetric >>

IdleTask ==
  [ pc |-> "idle", mode |-> "none", term |-> NoTerm, id |-> NoKey,
    calls |-> << >>, phase |-> "read", snap |-> EmptyMap, late |-> FALSE,
    outcome |-> "none", results |-> {}, navs |-> 0 ]

\* a file that does not exist
NoFile == [ bytes |-> "absent", data |-> EmptyMap ]

\* the value null
Null == [ isNull |-> TRUE, text |-> << >> ]

Text(chars) == [ isNull |-> FALSE, text |-> chars ]

NoCall == [ pc |-> "idle", attempt |-> 0, response |-> Null ]

NoValidation ==
  [ pc |-> "idle", positive |-> {}, negative |-> {}, score |-> 0,
    consulted |-> FALSE, verdict |-> FALSE, loaded |-> FALSE, count |-> 0 ]

\* the two services before their constructors ran
NoService ==
  [ index |-> [ gemini |-> 0, mistral |-> 0 ],
    hasKey |-> [ gemini |-> FALSE, mistral |-> FALSE ],
    provider |-> "none", pc |-> "idle" ]

NoResponse ==
  [ status |-> 0, success |-> FALSE, searchesPerformed |-> 0,
    totalResults |-> 0, results |-> << >>, nextSearchIndex |-> 0,
    hasMore |-> FALSE, errors |-> << >> ]

NoFanOut ==
  [ pc |-> "idle", startIndex |-> 0, parallelCount |-> 0, promises |-> << >>,
    response |-> NoResponse, requests |-> 0 ]

NoBatch ==
  [ called |-> FALSE, maxTerms |-> 0, bestStrategies |-> << >>,
    searchTerms |-> << >> ]

IdleSaver ==
  [ pc |-> "idle", variant |-> "none", kind |-> "none", data |-> EmptyMap,
    previous |-> EmptyMap, threw |-> FALSE, saves |-> 0 ]

NoRun ==
  [ mode |-> "none", term |-> NoTerm, outcome |-> "none", results |-> {},
    navs |-> 0 ]

\* no searchGoogle call has been made
NoScrape ==
  [ pc |-> "idle", maxPages |-> 0, pageNum |-> 0, gotos |-> << >>,
    checked |-> FALSE, isLoggedIn |-> FALSE, hasCaptcha |-> FALSE,
    rechecks |-> 0, stillHasCaptcha |-> FALSE, extracted |-> << >>, allResults |-> 0, exit |-> "none",
    results |-> 0, calls |-> 0 ]

\* no analyzeCompany call has been made
NoAnalysis ==
  [ pc |-> "idle", build |-> "none", gemini |-> "none", mistral |-> "none",
    provider |-> "none", count |-> 0 ]

\* main has not reached its loop
NoProspect ==
  [ pc |-> "idle", terms |-> 0, i |-> 0, updates |-> << >>, exits |-> << >> ]

\* no learning record
NoLearning == [ absent |-> TRUE ]

\* a client that has downloaded nothing and merged nothing
NoSync == [ local |-> NoLearning, merges |-> 0 ]

\* no validateWithAI call in progress
NoAiValidation ==
  [ pc |-> "idle", outcome |-> "none", text |-> << >>, isValid |-> FALSE,
    confidence |-> 0, kept |-> FALSE, calls |-> 0 ]

\* a client that has not started its loop
NoDrive ==
  [ pc |-> "idle", maxSearches |-> 0, parallelSearches |-> 0, searchIndex |-> 0,
    attempted |-> << >>, response |-> NoResponse, drives |-> 0 ]

Init ==
  /\ companies = EmptyMap
  /\ companiesMtime = 1
  /\ companiesIndex = [ term \in Terms |-> {} ]
  /\ companiesLastLoad = 0
  /\ stats = DefaultStats
  /\ learning = DefaultLearning
  /\ cache = EmptyCache
  /\ now = 1
  /\ ticks = 0
  /\ tasks = [ s \in Slots |-> IdleTask ]
  /\ runs = 0
  /\ navigations = [ term \in Terms |-> 0 ]
  /\ savedKeys = {}
  /\ learningUpdates = 0
  /\ lastRun = NoRun
  /\ running = 0
  /\ preemptions = 0
  /\ learningBytes = "all"
  /\ learningTmp = NoFile
  /\ saver = IdleSaver
  /\ batch = NoBatch
  /\ apiKeys = [ loaded |-> FALSE, gemini |-> 0, mistral |-> 0 ]
  /\ currentGeminiIndex = 0
  /\ currentMistralIndex = 0
  /\ aiCall = NoCall
  /\ validation = NoValidation
  /\ service = NoService
  /\ fanout = NoFanOut
  /\ scraper = NoScrape
  /\ prospect = NoProspect
  /\ analysis = NoAnalysis
  /\ sync = NoSync
  /\ driver = NoDrive
  /\ aiValidation = NoAiValidation

(***************************************************************************)
(* Reading the companies file (getCompanies) refreshes the in-memory index *)
(* when the file's modification time is later than the last load.          *)
(***************************************************************************)
LoadCompanies ==
  IF companiesLastLoad < companiesMtime
    THEN /\ companiesIndex' = RebuildIndex(companies)
         /\ companiesLastLoad' = companiesMtime
    ELSE UNCHANGED << companiesIndex, companiesLastLoad >>

IndexAfterLoad ==
  IF companiesLastLoad < companiesMtime THEN RebuildIndex(companies)
                                        ELSE companiesIndex

IsCompleted(look) == look.found /\ look.rec.completedAt # 0

(***************************************************************************)
(* Scheduling.  A task runs from one await to the next; which task resumes *)
(* next is not decided by the code.  The model bounds the number of times  *)
(* a task that has not returned is overtaken by another task.              *)
(***************************************************************************)
Overtakes(s) == running \notin { 0, s } /\ tasks[running].pc # "idle"

Schedule(s) ==
  /\ Overtakes(s) => preemptions < MaxPreemptions
  /\ running' = s
  /\ preemptions' = IF Overtakes(s) THEN preemptions + 1 ELSE preemptions

(***************************************************************************)
(* The clock.                                                              *)
(***************************************************************************)
TickSteps == { SEARCH_TTL_MS }

AllIdle == \A s \in Slots : tasks[s].pc = "idle"

Tick(d) ==
  /\ ticks < MaxTicks
  /\ now' = now + d
  /\ ticks' = ticks + 1
  /\ UNCHANGED << companies, companiesMtime, companiesIndex, companiesLastLoad,
                  stats, learning, cache, tasks, runs, navigations,
                  savedKeys, learningUpdates, lastRun, running, preemptions >>

(***************************************************************************)
(* search.js: a request in sequential mode (handler, 940-1375) and a       *)
(* request in fan-out mode (performParallelSearches, 1378-1431), which     *)
(* starts one performSingleSearch per index before it awaits any of them.  *)
(***************************************************************************)
\* terms whose completion record has been written
CompletedTerms == { term \in Terms : SearchKey(term) \in savedKeys }

NewTask(mode, term) ==
  [ IdleTask EXCEPT !.pc = "cacheCheck", !.mode = mode, !.term = term,
                    !.late = (term \in CompletedTerms) ]

StartHandler(s, i) ==
  /\ runs < MaxRuns
  /\ tasks[s].pc = "idle"
  /\ tasks' = [ tasks EXCEPT ![s] = NewTask("handler", SearchTermOf(i)) ]
  /\ runs' = runs + 1
  /\ UNCHANGED << companies, companiesMtime, companiesIndex, companiesLastLoad,
                  stats, learning, cache, now, ticks, navigations,
                  savedKeys, learningUpdates, lastRun, running, preemptions >>

StartParallel(i, count) ==
  /\ runs < MaxRuns
  /\ runs < MaxBatches
  /\ count <= MAX_PARALLEL
  /\ AllIdle
  /\ tasks' = [ s \in Slots |->
                  IF s <= count /\ (i + s - 1) < MAX_SEARCHES
                    THEN NewTask("single", SearchTermOf(i + s - 1))
                    ELSE IdleTask ]
  /\ runs' = runs + 1
  /\ UNCHANGED << companies, companiesMtime, companiesIndex, companiesLastLoad,
                  stats, learning, cache, now, ticks, navigations,
                  savedKeys, learningUpdates, lastRun, running, preemptions >>

\* storage.getCachedSearchResult(searchTerm) and the branch on its result
CacheCheck(s) ==
  LET t == tasks[s]
      got == GetCachedSearchResult(cache, t.term, now)
      n == Cardinality(got.data)
  IN  /\ t.pc = "cacheCheck"
      /\ Schedule(s)
      /\ tasks' =
           [ tasks EXCEPT ![s] =
               IF got.hit
                 THEN [ t EXCEPT !.pc = "persist", !.outcome = "CACHE_HIT",
                                 !.results = got.data,
                                 !.calls = IF t.mode = "handler"
                                             THEN CallsCountResults(t.term, n)
                                             ELSE << >> ]
                 ELSE [ t EXCEPT !.pc = "completionCheck" ] ]
      /\ UNCHANGED << companies, companiesMtime, companiesIndex,
                      companiesLastLoad, stats, learning, cache, now, ticks,
                      runs, navigations, savedKeys, learningUpdates, lastRun >>

\* storage.getCompany(existingSearchKey) and the branch on completedAt
CompletionCheck(s) ==
  LET t == tasks[s]
      look == GetCompany(companies, SearchKey(t.term))
  IN  /\ t.pc = "completionCheck"
      /\ Schedule(s)
      /\ LoadCompanies
      /\ tasks' = [ tasks EXCEPT ![s].pc =
                      IF IsCompleted(look) THEN "replay" ELSE "scrape" ]
      /\ UNCHANGED << companies, companiesMtime, stats, learning, cache, now,
                      ticks, runs, navigations, savedKeys, learningUpdates, lastRun >>

\* storage.getCompaniesBySearchTerm(searchTerm); the handler then caches the
\* replayed results and counts them, performSingleSearch returns them
Replay(s) ==
  LET t == tasks[s]
      related == GetCompaniesBySearchTerm(companies, IndexAfterLoad, t.term)
      n == Cardinality(related)
  IN  /\ t.pc = "replay"
      /\ Schedule(s)
      /\ LoadCompanies
      /\ tasks' =
           [ tasks EXCEPT ![s] =
               [ t EXCEPT !.pc = "persist", !.outcome = "SKIPPED",
                          !.results = related,
                          !.calls = IF t.mode = "handler"
                                      THEN << CallSetCachedSearchResult(
                                                t.term, related, now) >>
                                             \o CallsCountResults(t.term, n)
                                      ELSE << >> ] ]
      /\ UNCHANGED << companies, companiesMtime, stats, learning, cache, now,
                      ticks, runs, navigations, savedKeys, learningUpdates, lastRun >>

\* the pages a scrape navigates to: pages 2..5 in the handler, one page in
\* performSingleSearch, none when the browser fails before the first goto
PagesVisited(mode, browserOk) ==
  IF ~browserOk THEN 0
  ELSE IF mode = "handler" THEN (HANDLER_LAST_PAGE - HANDLER_FIRST_PAGE) + 1
  ELSE 1

\* scraping and the two validation passes; `validated` is what the caller
\* is given, `approved` what the final validation keeps and is persisted
Scrape(s, browserOk, validated, approved) ==
  LET t == tasks[s]
      navs == PagesVisited(t.mode, browserOk)
  IN  /\ t.pc = "scrape"
      /\ Schedule(s)
      /\ approved \subseteq validated
      /\ Cardinality(validated) <= MaxResults
      /\ ~browserOk => validated = {}
      /\ navigations' = [ navigations EXCEPT ![t.term] = @ + navs ]
      /\ tasks' =
           [ tasks EXCEPT ![s] =
               [ t EXCEPT !.pc = "persist", !.outcome = "SCRAPED",
                          !.navs = navs,
                          !.results = { ResultItem(u) : u \in validated },
                          !.calls = CallsAfterScrape(t.term, approved, now)
                                      \o (IF t.mode = "handler"
                                            THEN CallsRecordSearch ELSE << >>) ] ]
      /\ UNCHANGED << companies, companiesMtime, companiesIndex,
                      companiesLastLoad, stats, learning, cache, now, ticks,
                      runs, savedKeys, learningUpdates, lastRun >>

(***************************************************************************)
(* A storage call: its read (the file is parsed into a local object) ...   *)
(***************************************************************************)
FileContent(file) ==
  CASE file = "companies" -> companies
    [] file = "stats" -> stats
    [] file = "learning" -> learning
    [] OTHER -> cache

StorageRead(s) ==
  LET t == tasks[s]
      file == FileOf(Head(t.calls))
  IN  /\ t.pc = "persist"
      /\ t.calls # << >>
      /\ t.phase = "read"
      /\ Schedule(s)
      /\ IF file = "companies"
           THEN LoadCompanies
           ELSE UNCHANGED << companiesIndex, companiesLastLoad >>
      /\ tasks' = [ tasks EXCEPT ![s].phase = "write",
                                 ![s].snap = FileContent(file) ]
      /\ UNCHANGED << companies, companiesMtime, stats, learning, cache, now,
                      ticks, runs, navigations, savedKeys, learningUpdates, lastRun >>

(***************************************************************************)
(* ... and its write: the object, modified, replaces the whole file.       *)
(***************************************************************************)
Written(call, snap, t) ==
  CASE call.f = "saveCompany" -> SaveCompany(snap, call.key, call.rec, t)
    [] call.f = "setCachedSearchResult" ->
         SetCachedSearchResult(snap, call.term, call.results, t)
    [] call.f = "setCachedCompanyAnalysis" ->
         SetCachedCompanyAnalysis(snap, call.key, call.rec, t)
    [] call.f = "incrementStat" -> IncrementStat(snap, call.key[2], call.n)
    [] call.f = "incrementNeighborhoodHits" ->
         IncrementNeighborhoodHits(snap, call.key[2], call.n)
    [] call.f = "incrementBusinessHits" ->
         IncrementBusinessHits(snap, call.key[2], call.n)
    [] call.f = "updateLearning" ->
         UpdateLearning(snap, call.term, call.key[1], call.key[2],
                        call.key[3], call.n, t)
    [] OTHER -> RecordMetric(snap)

StorageWrite(s) ==
  LET t == tasks[s]
      call == Head(t.calls)
      file == FileOf(call)
      out == Written(call, t.snap, now)
  IN  /\ t.pc = "persist"
      /\ t.calls # << >>
      /\ t.phase = "write"
      /\ Schedule(s)
      /\ IF file = "companies"
           THEN /\ companies' = out
                /\ companiesMtime' = now
                /\ companiesIndex' = IndexAfterSave(companiesIndex, call.key, call.rec)
                /\ savedKeys' = savedKeys \cup { call.key }
           ELSE UNCHANGED << companies, companiesMtime, companiesIndex,
                             savedKeys >>
      /\ learningUpdates' =
           IF call.f = "updateLearning" THEN learningUpdates + 1
                                        ELSE learningUpdates
      /\ stats' = IF file = "stats" THEN out ELSE stats
      /\ learning' = IF file = "learning" THEN out ELSE learning
      /\ cache' = IF file = "cache" THEN out ELSE cache
      /\ tasks' = [ tasks EXCEPT ![s].calls = Tail(t.calls),
                                 ![s].phase = "read",
                                 ![s].snap = EmptyMap ]
      /\ UNCHANGED << companiesLastLoad, now, ticks, runs, navigations, lastRun >>

\* the task returns (res.json(...) or the value of performSingleSearch)
Respond(s) ==
  LET t == tasks[s]
  IN  /\ t.pc = "persist"
      /\ t.calls = << >>
      /\ Overtakes(s) => preemptions < MaxPreemptions
      /\ IF \A r \in Slots \ { s } : tasks[r].pc = "idle"
           THEN running' = 0 /\ preemptions' = 0
           ELSE Schedule(s)
      /\ lastRun' = [ mode |-> t.mode, term |-> t.term, outcome |-> t.outcome,
                      results |-> t.results, navs |-> t.navs ]
      /\ tasks' = [ tasks EXCEPT ![s] = IdleTask ]
      /\ UNCHANGED << companies, companiesMtime, companiesIndex,
                      companiesLastLoad, stats, learning, cache, now, ticks,
                      runs, navigations, savedKeys, learningUpdates >>

(***************************************************************************)
(* analyze.js: action analyze_company_deep (85-212).                       *)
(***************************************************************************)
\* `${companyId}_deep`
DeepId(id) == << id[1], id[2], id[3] \o "_deep" >>

\* the ids a client sends: a key of the store, or the base64 of a URL
CompanyIds ==
  { CompanyKey(u) : u \in Urls } \cup { UrlId(u) : u \in Urls }

\* the fallback of 103-156: a record whose url contains the decoded id, else
\* one whose url contains the first 30 characters of it
FoundByUrl(companiesRead, id) ==
  LET decoded == Atob(id)
      exact == { k \in DOMAIN companiesRead :
                   decoded # NoUrl /\ companiesRead[k].url = decoded }
      similar == { k \in DOMAIN companiesRead :
                     decoded # NoUrl /\ companiesRead[k].url # NoUrl
                       /\ companiesRead[k].url[1] = decoded[1] }
  IN  IF exact # {} THEN exact ELSE similar

StartDeepAnalysis(s, id) ==
  LET t == tasks[s]
      cached == GetCachedCompanyAnalysis(cache, DeepId(id), now)
      look == GetCompany(companies, id)
      matches == FoundByUrl(companies, id)
  IN  /\ runs < MaxRuns
      /\ t.pc = "idle"
      /\ runs' = runs + 1
      /\ LoadCompanies
      /\ \/ /\ cached.hit
            /\ tasks' = [ tasks EXCEPT ![s] =
                 [ IdleTask EXCEPT !.pc = "persist", !.mode = "deep", !.id = id,
                                   !.outcome = "ANALYSIS_CACHED",
                                   !.calls = << CallRecordMetric >> ] ]
         \/ /\ ~cached.hit
            /\ look.found \/ matches # {}
            /\ \E k \in (IF look.found THEN {id} ELSE matches) :
                 LET company == [ companies[k] EXCEPT !.deepAnalysis = TRUE ]
                 IN  tasks' = [ tasks EXCEPT ![s] =
                       [ IdleTask EXCEPT !.pc = "persist", !.mode = "deep",
                           !.id = id, !.outcome = "ANALYZED",
                           !.results = { company },
                           !.calls = << CallRecordMetric, CallRecordMetric,
                                        CallRecordMetric,
                                        CallSetCachedCompanyAnalysis(DeepId(id), company),
                                        CallSaveCompany(id, company) >> ] ]
         \/ /\ ~cached.hit
            /\ ~look.found /\ matches = {}
            /\ tasks' = [ tasks EXCEPT ![s] =
                 [ IdleTask EXCEPT !.pc = "persist", !.mode = "deep", !.id = id,
                                   !.outcome = "NOT_FOUND" ] ]
      /\ UNCHANGED << companies, companiesMtime, stats, learning, cache, now,
                      ticks, navigations, savedKeys, learningUpdates, lastRun, running,
                      preemptions >>

(***************************************************************************)
(* analyze.js: action update_learning (240-254).  The body's parameters    *)
(* are passed on to updateLearning, foundCompanies as (foundCompanies||0). *)
(***************************************************************************)
Strategies == { "google_search", NotAString }

FoundCounts == (0 - 1) .. MaxFound

StartUpdateLearning(s, i, strategy, found) ==
  LET term == SearchTermOf(i)
  IN  /\ learningUpdates < MaxUpdates
      /\ tasks[s].pc = "idle"
      /\ tasks' = [ tasks EXCEPT ![s] =
           [ IdleTask EXCEPT !.pc = "persist", !.mode = "learn", !.term = term,
                             !.outcome = "LEARNED",
                             !.calls = << CallUpdateLearning(term, term[2],
                                            term[1], strategy, found) >> ] ]
      /\ UNCHANGED << companies, companiesMtime, companiesIndex,
                      companiesLastLoad, stats, learning, cache, now, ticks,
                      runs, navigations, savedKeys, learningUpdates, lastRun,
                      running, preemptions >>

\* Requests arrive one after the other; the tasks of one fan-out request run
\* interleaved.
Next ==
  \/ /\ UNCHANGED << fileVars, aiVars >>
     /\ \E d \in TickSteps : AllIdle /\ Tick(d)
  \/ /\ UNCHANGED << fileVars, aiVars >>
     /\ \E i \in SearchIndices : AllIdle /\ StartHandler(1, i)
  \/ /\ UNCHANGED << fileVars, aiVars >>
     /\ \E i \in SearchIndices, count \in 2 .. MaxTasks : StartParallel(i, count)
  \/ /\ UNCHANGED << fileVars, aiVars >>
     /\ \E id \in CompanyIds : AllIdle /\ StartDeepAnalysis(1, id)
  \/ /\ UNCHANGED << fileVars, aiVars >>
     /\ \E s \in Slots : CacheCheck(s)
  \/ /\ UNCHANGED << fileVars, aiVars >>
     /\ \E s \in Slots : CompletionCheck(s)
  \/ /\ UNCHANGED << fileVars, aiVars >>
     /\ \E s \in Slots : Replay(s)
  \/ /\ UNCHANGED << fileVars, aiVars >>
     /\ \E s \in Slots, browserOk \in BOOLEAN, validated \in SUBSET Urls,
           approved \in SUBSET Urls : Scrape(s, browserOk, validated, approved)
  \/ /\ UNCHANGED << fileVars, aiVars >>
     /\ \E s \in Slots : StorageRead(s)
  \/ /\ UNCHANGED << fileVars, aiVars >>
     /\ \E s \in Slots : StorageWrite(s)
  \/ /\ UNCHANGED << fileVars, aiVars >>
     /\ \E s \in Slots : Respond(s)

Spec == Init /\ [][Next]_vars

\* update_learning requests, one at a time, each run to completion
NextLearn ==
  \/ /\ UNCHANGED << fileVars, aiVars >>
     /\ \E i \in SearchIndices, strategy \in Strategies, found \in FoundCounts :
           StartUpdateLearning(1, i, strategy, found)
  \/ /\ UNCHANGED << fileVars, aiVars >>
     /\ StorageRead(1)
  \/ /\ UNCHANGED << fileVars, aiVars >>
     /\ StorageWrite(1)
  \/ /\ UNCHANGED << fileVars, aiVars >>
     /\ Respond(1)

SpecLearn == Init /\ [][NextLearn]_vars

\* search requests one at a time, each run to its response: the handler in
\* sequential mode, and performSingleSearch as the only task of a fan-out
NextTask ==
  \/ /\ UNCHANGED << fileVars, aiVars >>
     /\ \E d \in TickSteps : AllIdle /\ Tick(d)
  \/ /\ UNCHANGED << fileVars, aiVars >>
     /\ \E i \in SearchIndices : AllIdle /\ StartHandler(1, i)
  \/ /\ UNCHANGED << fileVars, aiVars >>
     /\ \E i \in SearchIndices : StartParallel(i, 1)
  \/ /\ UNCHANGED << fileVars, aiVars >>
     /\ CacheCheck(1)
  \/ /\ UNCHANGED << fileVars, aiVars >>
     /\ CompletionCheck(1)
  \/ /\ UNCHANGED << fileVars, aiVars >>
     /\ Replay(1)
  \/ /\ UNCHANGED << fileVars, aiVars >>
     /\ \E browserOk \in BOOLEAN, validated \in SUBSET Urls,
           approved \in SUBSET Urls : Scrape(1, browserOk, validated, approved)
  \/ /\ UNCHANGED << fileVars, aiVars >>
     /\ StorageRead(1)
  \/ /\ UNCHANGED << fileVars, aiVars >>
     /\ StorageWrite(1)
  \/ /\ UNCHANGED << fileVars, aiVars >>
     /\ Respond(1)

SpecTask == Init /\ [][NextTask]_vars

\* invocations of the search handler that overlap: a second request is
\* accepted while the first is between two of its awaits
NextRace ==
  \/ /\ UNCHANGED << fileVars, aiVars >>
     /\ \E s \in Slots, i \in SearchIndices : StartHandler(s, i)
  \/ /\ UNCHANGED << fileVars, aiVars >>
     /\ \E s \in Slots : CacheCheck(s)
  \/ /\ UNCHANGED << fileVars, aiVars >>
     /\ \E s \in Slots : CompletionCheck(s)
  \/ /\ UNCHANGED << fileVars, aiVars >>
     /\ \E s \in Slots : Replay(s)
  \/ /\ UNCHANGED << fileVars, aiVars >>
     /\ \E s \in Slots, browserOk \in BOOLEAN, validated \in SUBSET Urls,
           approved \in SUBSET Urls : Scrape(s, browserOk, validated, approved)
  \/ /\ UNCHANGED << fileVars, aiVars >>
     /\ \E s \in Slots : StorageRead(s)
  \/ /\ UNCHANGED << fileVars, aiVars >>
     /\ \E s \in Slots : StorageWrite(s)
  \/ /\ UNCHANGED << fileVars, aiVars >>
     /\ \E s \in Slots : Respond(s)

SpecRace == Init /\ [][NextRace]_vars

(***************************************************************************)
(* The cache on its own: writes of search results and of company analyses  *)
(* and clock advances around the two lifetimes.  The capacity of a table,  *)
(* 1000 and 500 in the source, is an input of SetCached; here it is drawn  *)
(* from 1 .. MaxCapacity so that a table fills up.                         *)
(***************************************************************************)
CacheTickSteps ==
  { 1, SEARCH_TTL_MS, 60 * 60 * 1000, ANALYSIS_TTL_MS }

\* beyond this age of the cache file every entry has expired
CacheHorizon == ANALYSIS_TTL_MS + SEARCH_TTL_MS

Capacities == 1 .. MaxCapacity

SearchCacheKeys == { SearchTermOf(i) : i \in 0 .. MaxCapacity }

AnalysisCacheKeys == { DeepId(id) : id \in CompanyIds }

CacheTick(d) ==
  /\ ticks < MaxCacheTicks
  /\ now + d <= CacheHorizon
  /\ now' = now + d
  /\ ticks' = ticks + 1
  /\ UNCHANGED << companies, companiesMtime, companiesIndex, companiesLastLoad,
                  stats, learning, cache, tasks, runs, navigations, savedKeys,
                  learningUpdates, lastRun, running, preemptions >>

\* setCachedSearchResult, from its read to its write
CacheSearchResult(key, capacity) ==
  /\ runs < MaxCacheSets
  /\ cache' = [ cache EXCEPT
                  !.searchResults = SetCached(@, key, {}, now, capacity) ]
  /\ runs' = runs + 1
  /\ UNCHANGED << companies, companiesMtime, companiesIndex, companiesLastLoad,
                  stats, learning, now, ticks, tasks, navigations, savedKeys,
                  learningUpdates, lastRun, running, preemptions >>

\* setCachedCompanyAnalysis, from its read to its write
CacheCompanyAnalysis(id, capacity) ==
  /\ runs < MaxCacheSets
  /\ cache' = [ cache EXCEPT
                  !.companyAnalyses = SetCached(@, id, {}, now, capacity) ]
  /\ runs' = runs + 1
  /\ UNCHANGED << companies, companiesMtime, companiesIndex, companiesLastLoad,
                  stats, learning, now, ticks, tasks, navigations, savedKeys,
                  learningUpdates, lastRun, running, preemptions >>

NextCache ==
  \/ /\ UNCHANGED << fileVars, aiVars >>
     /\ \E d \in CacheTickSteps : CacheTick(d)
  \/ /\ UNCHANGED << fileVars, aiVars >>
     /\ \E key \in SearchCacheKeys, capacity \in Capacities :
           CacheSearchResult(key, capacity)
  \/ /\ UNCHANGED << fileVars, aiVars >>
     /\ \E id \in AnalysisCacheKeys, capacity \in Capacities :
           CacheCompanyAnalysis(id, capacity)

SpecCache == Init /\ [][NextCache]_vars

(***************************************************************************)
(* The learning file at the level of its bytes.  The file holds all, some  *)
(* or none of the JSON text of `learning`, or does not exist.  A save is   *)
(* one of three codes: the command-line build writes learning.json.tmp and *)
(* renames it over the file; src/api/storage.js (and the file branch of    *)
(* the blob build) calls writeFileSync on the file itself, which truncates *)
(* it and then writes; the blob branch is one put.  The process can stop   *)
(* between any two steps.                                                  *)
(***************************************************************************)
SaveVariants == { "rename", "direct", "blob" }

\* sync_to_cloud saves whatever object the client sent as localData.learning
SyncedLearning == { EmptyObject, LackingMaps, DefaultLearning }

\* getLearningData / loadLearningData: the parsed file, the default when the
\* file is absent or its text does not parse
LoadLearningData ==
  IF learningBytes = "all" THEN learning ELSE DefaultLearning

StartSave(variant, kind, data, threw) ==
  /\ saver.pc = "idle"
  /\ saver.saves < MaxSaves
  /\ saver' = [ pc |-> IF threw THEN "idle" ELSE "open", variant |-> variant,
                kind |-> kind, data |-> data, previous |-> LoadLearningData,
                threw |-> threw, saves |-> saver.saves + 1 ]
  /\ UNCHANGED << learning, learningBytes, learningTmp, otherThanLearning >>

\* updateLearning: load, modify, save; nothing is saved when it throws
UpdateLearningRequest(variant, i, found) ==
  LET learningRead == LoadLearningData
      threw == UpdateLearningThrows(learningRead, found)
  IN  StartSave(variant, "update",
                IF threw
                  THEN EmptyObject
                  ELSE UpdateLearning(EnsureMaps(learningRead), SearchTermOf(i),
                                      NeighborhoodOf(i), BusinessOf(i),
                                      "google_search", found, now),
                threw)

\* syncToCloud: if (localData.learning) await storage.saveLearningData(...)
SyncToCloud(variant, localLearning) ==
  /\ variant # "rename"
  /\ StartSave(variant, "sync", localLearning, FALSE)

\* writeFileSync opens its target with O_TRUNC; put replaces the blob
SaveOpen ==
  /\ saver.pc = "open"
  /\ CASE saver.variant = "direct" ->
            /\ learning' = saver.data
            /\ learningBytes' = "none"
            /\ UNCHANGED learningTmp
            /\ saver' = [ saver EXCEPT !.pc = "write" ]
       [] saver.variant = "rename" ->
            /\ learningTmp' = [ bytes |-> "none", data |-> saver.data ]
            /\ UNCHANGED << learning, learningBytes >>
            /\ saver' = [ saver EXCEPT !.pc = "write" ]
       [] saver.variant = "blob" ->
            /\ learning' = saver.data
            /\ learningBytes' = "all"
            /\ UNCHANGED learningTmp
            /\ saver' = [ saver EXCEPT !.pc = "done" ]
  /\ UNCHANGED otherThanLearning

MoreBytes(bytes) == IF bytes = "none" THEN "some" ELSE "all"

\* the text reaches the target in pieces
SaveWrite ==
  /\ saver.pc = "write"
  /\ IF saver.variant = "rename"
       THEN /\ learningTmp' =
                 [ learningTmp EXCEPT !.bytes = MoreBytes(@) ]
            /\ saver' = [ saver EXCEPT
                            !.pc = IF learningTmp.bytes = "some"
                                     THEN "rename" ELSE "write" ]
            /\ UNCHANGED << learning, learningBytes >>
       ELSE /\ learningBytes' = MoreBytes(learningBytes)
            /\ saver' = [ saver EXCEPT
                            !.pc = IF learningBytes = "some"
                                     THEN "done" ELSE "write" ]
            /\ UNCHANGED << learning, learningTmp >>
  /\ UNCHANGED otherThanLearning

\* fs.renameSync(tmpFile, LEARNING_FILE)
SaveRename ==
  /\ saver.pc = "rename"
  /\ learning' = learningTmp.data
  /\ learningBytes' = learningTmp.bytes
  /\ learningTmp' = NoFile
  /\ saver' = [ saver EXCEPT !.pc = "done" ]
  /\ UNCHANGED otherThanLearning

SaveReturn ==
  /\ saver.pc = "done"
  /\ saver' = [ saver EXCEPT !.pc = "idle" ]
  /\ UNCHANGED << learning, learningBytes, learningTmp, otherThanLearning >>

\* the process stops in the middle of a save and is started again
Crash ==
  /\ saver.pc \in { "open", "write", "rename" }
  /\ saver' = [ IdleSaver EXCEPT !.saves = saver.saves ]
  /\ UNCHANGED << learning, learningBytes, learningTmp, otherThanLearning >>

SaveFounds == { 0, 1 }

NextSave ==
  \/ \E variant \in SaveVariants, i \in SearchIndices, found \in SaveFounds :
        UpdateLearningRequest(variant, i, found)
  \/ \E variant \in SaveVariants, localLearning \in SyncedLearning :
        SyncToCloud(variant, localLearning)
  \/ SaveOpen
  \/ SaveWrite
  \/ SaveRename
  \/ SaveReturn
  \/ Crash

SpecSave == Init /\ [][NextSave]_vars

(***************************************************************************)
(* The term generator on its own: one call in a behaviour, over learning   *)
(* records whose bestStrategies names canonical strategies and the two     *)
(* names the search code records ("google_search", and "unknown" for a     *)
(* strategy that is not a string).                                         *)
(***************************************************************************)
StrategyNames == { "gmaps_local", "direct_web", "google_search", "unknown" }

Scores == { 1, 2 }

\* Object.entries of a map: distinct names, in any order
EntriesOver(names, n) ==
  { e \in [ 1 .. n -> names \X Scores ] :
      \A i, j \in 1 .. n : i # j => e[i][1] # e[j][1] }

\* a record with more strategies than the three that are taken
FourStrategies ==
  << << "unknown", 1 >>, << "direct_web", 2 >>, << "gmaps_local", 1 >>,
     << "google_search", 2 >> >>

StrategyEntries ==
  UNION { EntriesOver(StrategyNames, n) : n \in 0 .. MaxEntries }
    \cup { FourStrategies }

NeighborhoodEntries ==
  { << >>, << << "Vila Velha", 1 >>, << "Centro", 2 >> >> }

BusinessEntries == { << >>, << << "bar", 1 >> >> }

GenerateTerms(maxTerms, bestNeighborhoods, bestBusinessTypes, bestStrategies) ==
  /\ ~ batch.called
  /\ batch' = [ called |-> TRUE, maxTerms |-> maxTerms,
                bestStrategies |-> bestStrategies,
                searchTerms |->
                  GenerateSmartSearchTerms(bestNeighborhoods, bestBusinessTypes,
                                           bestStrategies, maxTerms) ]
  /\ UNCHANGED << storeVars, fileVars, callVars, service, fanout, cliVars, analysis, routeVars >>

NextTerms ==
  \E maxTerms \in 0 .. MaxTerms, bestNeighborhoods \in NeighborhoodEntries,
     bestBusinessTypes \in BusinessEntries, bestStrategies \in StrategyEntries :
    GenerateTerms(maxTerms, bestNeighborhoods, bestBusinessTypes, bestStrategies)

SpecTerms == Init /\ [][NextTerms]_vars

(***************************************************************************)
(* The validator of the command-line build.  The keys are read from the    *)
(* environment when the process starts.  analyzeWithAI tries Gemini up to  *)
(* min(3, keys) times, taking the next key each time, then Mistral once.   *)
(***************************************************************************)
Responses ==
  { << "S", "I", "M" >>, << "s", "i", "m" >>, << "S", "i", "m", ",", " ", "é" >>,
    << "N", "Ã", "O" >>, << "S", "I", "M", "P", "L", "E", "S" >>,
    << "N", "ã", "o", " ", "s", "i", "m" >> }

LoadConfig(geminiKeys, mistralKeys) ==
  /\ ~ apiKeys.loaded
  /\ apiKeys' = [ loaded |-> TRUE, gemini |-> geminiKeys, mistral |-> mistralKeys ]
  /\ UNCHANGED << currentGeminiIndex, currentMistralIndex, aiCall, validation >>

\* analyzeWithAI is entered: the Gemini loop, or Mistral when the loop is empty
EnterCall ==
  [ pc |-> IF GeminiAttempts(apiKeys.gemini) > 0 THEN "gemini" ELSE "mistral",
    attempt |-> 0, response |-> Null ]

\* page.goto, page.evaluate and the heuristic
IsCompanyWebsite(loaded, positive, negative) ==
  /\ apiKeys.loaded
  /\ validation.pc = "idle"
  /\ aiCall.pc = "idle"
  /\ validation.count < MaxValidations
  /\ ~ loaded => (positive = {} /\ negative = {})
  /\ LET decision == IF loaded THEN Heuristic(positive, negative) ELSE "reject"
     IN  /\ validation' =
               [ pc |-> IF decision = "ask" THEN "asking" ELSE "done",
                 positive |-> positive, negative |-> negative,
                 score |-> Score(positive, negative),
                 consulted |-> decision = "ask",
                 verdict |-> decision = "accept",
                 loaded |-> loaded,
                 count |-> validation.count + 1 ]
         /\ aiCall' = IF decision = "ask" THEN EnterCall ELSE aiCall
  /\ UNCHANGED << apiKeys, currentGeminiIndex, currentMistralIndex >>

\* one pass of the Gemini loop: getNextGeminiKey, fetch, and what came back
\* ("text": a non-empty text; "next": status 429 or 401, another status, an
\* abort or an empty text, which all lead to the next attempt)
GeminiAttempt(outcome, text) ==
  /\ aiCall.pc = "gemini"
  /\ currentGeminiIndex' = RotateKey(currentGeminiIndex, apiKeys.gemini)
  /\ aiCall' =
       IF outcome = "text"
         THEN [ aiCall EXCEPT !.pc = "returned", !.response = Text(text) ]
         ELSE [ aiCall EXCEPT
                  !.attempt = @ + 1,
                  !.pc = IF aiCall.attempt + 1 < GeminiAttempts(apiKeys.gemini)
                           THEN "gemini" ELSE "mistral" ]
  /\ UNCHANGED << apiKeys, currentMistralIndex, validation >>

\* the Mistral fallback: getNextMistralKey throws without keys, and whatever
\* is thrown ends in return null
MistralAttempt(outcome, text) ==
  /\ aiCall.pc = "mistral"
  /\ currentMistralIndex' =
       IF apiKeys.mistral = 0 THEN currentMistralIndex
       ELSE RotateKey(currentMistralIndex, apiKeys.mistral)
  /\ aiCall' =
       [ aiCall EXCEPT
           !.pc = "returned",
           !.response = IF apiKeys.mistral > 0 /\ outcome = "text"
                          THEN Text(text) ELSE Null ]
  /\ UNCHANGED << apiKeys, currentGeminiIndex, validation >>

\* const isCompany = /^\s*SIM\b/i.test(aiResponse || ''); return isCompany
Decide ==
  /\ validation.pc = "asking"
  /\ aiCall.pc = "returned"
  /\ validation' = [ validation EXCEPT !.pc = "done",
                                       !.verdict = IsCompany(aiCall.response) ]
  /\ UNCHANGED << apiKeys, currentGeminiIndex, currentMistralIndex, aiCall >>

\* the caller takes the verdict
ReturnVerdict ==
  /\ validation.pc = "done"
  /\ validation' = [ NoValidation EXCEPT !.count = validation.count ]
  /\ aiCall' = NoCall
  /\ UNCHANGED << apiKeys, currentGeminiIndex, currentMistralIndex >>

Outcomes == { "text", "next" }

NextValidate ==
  \/ /\ UNCHANGED << storeVars, fileVars, batch, service, fanout, cliVars, analysis, routeVars >>
     /\ \E geminiKeys, mistralKeys \in 0 .. MaxKeys :
          LoadConfig(geminiKeys, mistralKeys)
  \/ /\ UNCHANGED << storeVars, fileVars, batch, service, fanout, cliVars, analysis, routeVars >>
     /\ \E loaded \in BOOLEAN, positive \in SUBSET POSITIVE_SIGNALS,
           negative \in SUBSET NEGATIVE_SIGNALS :
          IsCompanyWebsite(loaded, positive, negative)
  \/ /\ UNCHANGED << storeVars, fileVars, batch, service, fanout, cliVars, analysis, routeVars >>
     /\ \E outcome \in Outcomes, text \in Responses :
          GeminiAttempt(outcome, text)
  \/ /\ UNCHANGED << storeVars, fileVars, batch, service, fanout, cliVars, analysis, routeVars >>
     /\ \E outcome \in Outcomes, text \in Responses :
          MistralAttempt(outcome, text)
  \/ /\ UNCHANGED << storeVars, fileVars, batch, service, fanout, cliVars, analysis, routeVars >>
     /\ Decide
  \/ /\ UNCHANGED << storeVars, fileVars, batch, service, fanout, cliVars, analysis, routeVars >>
     /\ ReturnVerdict

SpecValidate == Init /\ [][NextValidate]_vars

(***************************************************************************)
(* Model calls.  GeminiService and MistralService (src/api/ai.js and the   *)
(* copy in part_001) hold one key; generateContent sends a request and, in *)
(* its catch block, takes the next key and calls itself again whenever     *)
(* more than one key is configured.  analyzeWithAI of the command-line     *)
(* build is the loop modelled above.  Both builds read the same            *)
(* GEMINI_KEYS and MISTRAL_KEYS of the environment.  A request that was    *)
(* sent is answered or fails (each has a timeout), and a continuation that *)
(* is ready runs: the steps below are weakly fair.                         *)
(***************************************************************************)
Providers == { "gemini", "mistral" }

\* initialize(): this.apiKey = getNextGeminiKey() (null without keys)
Initialize(svc, provider, keys) ==
  IF keys = 0
    THEN [ svc EXCEPT !.hasKey[provider] = FALSE ]
    ELSE [ svc EXCEPT !.hasKey[provider] = TRUE,
                      !.index[provider] = RotateKey(@, keys) ]

\* the module is loaded: the keys are read and both constructors run
LoadServices(geminiKeys, mistralKeys) ==
  /\ LoadConfig(geminiKeys, mistralKeys)
  /\ service' = Initialize(Initialize(service, "gemini", geminiKeys),
                           "mistral", mistralKeys)

\* generateContent(prompt): without a key it throws at once (the catch block
\* rethrows, since a service without a key has no keys to rotate to)
GenerateContent(provider) ==
  /\ apiKeys.loaded
  /\ service.pc = "idle"
  /\ service' = [ service EXCEPT
                    !.provider = provider,
                    !.pc = IF service.hasKey[provider] THEN "request"
                                                        ELSE "threw" ]
  /\ UNCHANGED callVars

\* the request settles: a text is returned, or the catch block runs
\* (if (KEYS.length > 1) { this.initialize(); return this.generateContent() })
Settle(outcome) ==
  /\ service.pc = "request"
  /\ service' =
       IF outcome = "text" THEN [ service EXCEPT !.pc = "returned" ]
       ELSE IF apiKeys[service.provider] > 1
         THEN Initialize(service, service.provider, apiKeys[service.provider])
         ELSE [ service EXCEPT !.pc = "threw" ]
  /\ UNCHANGED callVars

\* the caller takes the text or catches the error
ServiceDone ==
  /\ service.pc \in { "returned", "threw" }
  /\ service' = [ service EXCEPT !.pc = "idle", !.provider = "none" ]
  /\ UNCHANGED callVars

\* analyzeWithAI called on its own (the deep analysis of a site)
StartAnalyze ==
  /\ apiKeys.loaded
  /\ validation.pc = "idle"
  /\ aiCall.pc = "idle"
  /\ aiCall' = EnterCall
  /\ UNCHANGED << apiKeys, currentGeminiIndex, currentMistralIndex,
                  validation, service >>

AnalyzeDone ==
  /\ validation.pc = "idle"
  /\ aiCall.pc = "returned"
  /\ aiCall' = NoCall
  /\ UNCHANGED << apiKeys, currentGeminiIndex, currentMistralIndex,
                  validation, service >>

SettleSome == \E outcome \in Outcomes : Settle(outcome)

GeminiSome ==
  \E outcome \in Outcomes : GeminiAttempt(outcome, << "S", "I", "M" >>)

MistralSome ==
  \E outcome \in Outcomes : MistralAttempt(outcome, << "S", "I", "M" >>)

otherThanCalls == << storeVars, fileVars, batch, fanout, cliVars, analysis, routeVars >>

NextCalls ==
  \/ /\ UNCHANGED otherThanCalls
     /\ \E geminiKeys, mistralKeys \in 0 .. MaxKeys :
          LoadServices(geminiKeys, mistralKeys)
  \/ /\ UNCHANGED otherThanCalls
     /\ \E provider \in Providers : GenerateContent(provider)
  \/ /\ UNCHANGED otherThanCalls
     /\ SettleSome
  \/ /\ UNCHANGED otherThanCalls
     /\ ServiceDone
  \/ /\ UNCHANGED otherThanCalls
     /\ StartAnalyze
  \/ /\ UNCHANGED << otherThanCalls, service >>
     /\ GeminiSome
  \/ /\ UNCHANGED << otherThanCalls, service >>
     /\ MistralSome
  \/ /\ UNCHANGED otherThanCalls
     /\ AnalyzeDone

SpecCalls ==
  /\ Init
  /\ [][NextCalls]_vars
  /\ WF_vars(SettleSome /\ UNCHANGED otherThanCalls)
  /\ WF_vars(GeminiSome /\ UNCHANGED << otherThanCalls, service >>)
  /\ WF_vars(MistralSome /\ UNCHANGED << otherThanCalls, service >>)

(***************************************************************************)
(* The fan-out on its own.  A performSingleSearch promise is pending until *)
(* it fulfils with its results or rejects with an error (updateLearning    *)
(* throws on a learning record without lists; a cache entry without        *)
(* results makes cachedResult.results.length throw); the promises settle   *)
(* in any order.  The result items of a task are numbered within it.       *)
(***************************************************************************)
Messages == { "Cannot read properties of undefined (reading 'push')",
              "Cannot read properties of undefined (reading 'length')" }

Pending(searchIndex) ==
  [ index |-> searchIndex, status |-> "pending", resultsFound |-> 0,
    results |-> << >>, reason |-> "" ]

\* a variant that starts parallelCount searches whatever maxSearches is
PromisesUnbounded(startIndex, maxSearches, parallelCount) ==
  [ k \in 1 .. parallelCount |-> Pending(startIndex + k - 1) ]

\* for (let i = 0; i < parallelCount && (startIndex + i) < maxSearches; i++)
PromisesFor(startIndex, maxSearches, parallelCount) ==
  LET n == Cardinality({ i \in 0 .. parallelCount - 1 :
                           startIndex + i < maxSearches })
  IN  [ k \in 1 .. n |-> Pending(startIndex + k - 1) ]

PerformParallelSearches(startIndex, parallelCount) ==
  /\ fanout.pc = "idle"
  /\ fanout.requests < MaxFanOuts
  /\ fanout' = [ pc |-> "waiting", startIndex |-> startIndex,
                 parallelCount |-> parallelCount,
                 promises |-> PromisesFor(startIndex, MAX_SEARCHES, parallelCount),
                 response |-> NoResponse,
                 requests |-> fanout.requests + 1 ]

\* return { searchTerm, ..., resultsFound, results }
TaskFulfils(k, found) ==
  /\ k \in DOMAIN fanout.promises
  /\ fanout.promises[k].status = "pending"
  /\ fanout' = [ fanout EXCEPT
                   !.promises[k].status = "fulfilled",
                   !.promises[k].resultsFound = found,
                   !.promises[k].results =
                      [ j \in 1 .. found |-> << fanout.promises[k].index, j >> ] ]

\* an error thrown inside performSingleSearch
TaskRejects(k, message) ==
  /\ k \in DOMAIN fanout.promises
  /\ fanout.promises[k].status = "pending"
  /\ fanout' = [ fanout EXCEPT !.promises[k].status = "rejected",
                               !.promises[k].reason = message ]

\* a variant that stops waiting at the first rejection, like Promise.all
SettledOrRejected(promises) ==
  \/ \A k \in DOMAIN promises : promises[k].status # "pending"
  \/ \E k \in DOMAIN promises : promises[k].status = "rejected"

\* await Promise.allSettled(searchPromises)
AllSettled(promises) ==
  \A k \in DOMAIN promises : promises[k].status # "pending"

\* searchResults.forEach: results.push(result.value) in promise order
RECURSIVE Fulfilled(_)
Fulfilled(promises) ==
  IF promises = << >> THEN << >>
  ELSE (IF Head(promises).status = "fulfilled" THEN << Head(promises) >>
                                               ELSE << >>)
         \o Fulfilled(Tail(promises))

\* errors.push({ index: startIndex + index, error: result.reason.message })
RECURSIVE Errors(_, _, _)
Errors(promises, startIndex, index) ==
  IF index >= Len(promises) THEN << >>
  ELSE (IF promises[index + 1].status = "rejected"
          THEN << [ index |-> startIndex + index,
                    error |-> promises[index + 1].reason ] >>
          ELSE << >>)
         \o Errors(promises, startIndex, index + 1)

\* results.reduce((sum, r) => sum + r.resultsFound, 0)
RECURSIVE TotalResults(_)
TotalResults(results) ==
  IF results = << >> THEN 0
  ELSE Head(results).resultsFound + TotalResults(Tail(results))

\* results.flatMap(r => r.results)
RECURSIVE FlatResults(_)
FlatResults(results) ==
  IF results = << >> THEN << >>
  ELSE Head(results).results \o FlatResults(Tail(results))

\* res.status(200).json({...}); errors is left out when it is empty
BatchResponse(promises, startIndex, maxSearches, parallelCount) ==
  LET results == Fulfilled(promises)
      nextIndex == startIndex + parallelCount
  IN  [ status |-> 200, success |-> TRUE,
        searchesPerformed |-> Len(results),
        totalResults |-> TotalResults(results),
        results |-> FlatResults(results),
        nextSearchIndex |-> nextIndex,
        hasMore |-> nextIndex < maxSearches,
        errors |-> Errors(promises, startIndex, 0) ]

BatchResponds ==
  /\ fanout.pc = "waiting"
  /\ AllSettled(fanout.promises)
  /\ fanout' = [ fanout EXCEPT
                   !.pc = "responded",
                   !.response = BatchResponse(fanout.promises, fanout.startIndex,
                                              MAX_SEARCHES, fanout.parallelCount) ]

otherThanFanOut ==
  << storeVars, fileVars, batch, callVars, service, cliVars, analysis, routeVars >>

NextFanOut ==
  \/ /\ UNCHANGED otherThanFanOut
     /\ \E startIndex \in 0 .. MaxStart, parallelCount \in 2 .. MAX_PARALLEL :
          PerformParallelSearches(startIndex, parallelCount)
  \/ /\ UNCHANGED otherThanFanOut
     /\ \E k \in 1 .. MAX_PARALLEL, found \in 0 .. MaxResults :
          TaskFulfils(k, found)
  \/ /\ UNCHANGED otherThanFanOut
     /\ \E k \in 1 .. MAX_PARALLEL, message \in Messages :
          TaskRejects(k, message)
  \/ /\ UNCHANGED otherThanFanOut
     /\ BatchResponds

SpecFanOut == Init /\ [][NextFanOut]_vars

(***************************************************************************)
(* analyzeCompany (src/api/ai.js 111-163, src/unnamed/part_001 166-222):   *)
(* Gemini, then Mistral, then the fixed fallback text.  Both files guard   *)
(* the calls with geminiService.model and mistralService.client.  The      *)
(* services of ai.js assign these fields in initialize() when a key is     *)
(* configured; the services of part_001 keep the key in this.apiKey and    *)
(* assign neither field.                                                   *)
(***************************************************************************)
Builds == { "src/api/ai.js", "src/unnamed/part_001" }

\* geminiService.model, mistralService.client: is the field truthy
HasClient(build, provider) ==
  build = "src/api/ai.js" /\ service.hasKey[provider]

\* analyzeCompany(companyData) up to its first try block
AnalyzeCompany(build) ==
  /\ apiKeys.loaded
  /\ analysis.pc = "idle"
  /\ analysis.count < MaxAnalyses
  /\ service.pc = "idle"
  /\ analysis' = [ NoAnalysis EXCEPT !.pc = "gemini", !.build = build,
                                     !.count = analysis.count + 1 ]
  /\ UNCHANGED << callVars, service >>

\* if (geminiService.model) { await geminiService.generateContent(prompt) ...
\* and the same for mistralService.client; then the fallback
TryProvider ==
  /\ analysis.pc \in Providers
  /\ IF HasClient(analysis.build, analysis.pc)
       THEN /\ service' = [ service EXCEPT !.provider = analysis.pc,
                                           !.pc = "request" ]
            /\ analysis' = [ analysis EXCEPT !.pc = "await" ]
       ELSE /\ analysis' =
                 IF analysis.pc = "gemini"
                   THEN [ analysis EXCEPT !.pc = "mistral" ]
                   ELSE [ analysis EXCEPT !.pc = "returned",
                                          !.provider = "fallback" ]
            /\ UNCHANGED service
  /\ UNCHANGED callVars

\* the awaited call returned its text, or its error is caught
ProviderDone ==
  LET provider == service.provider
      noted == [ analysis EXCEPT ![provider] = service.pc ]
  IN  /\ analysis.pc = "await"
      /\ service.pc \in { "returned", "threw" }
      /\ analysis' =
           IF service.pc = "returned"
             THEN [ noted EXCEPT !.pc = "returned", !.provider = provider ]
           ELSE IF provider = "gemini" THEN [ noted EXCEPT !.pc = "mistral" ]
           ELSE [ noted EXCEPT !.pc = "returned", !.provider = "fallback" ]
      /\ service' = [ service EXCEPT !.pc = "idle", !.provider = "none" ]
      /\ UNCHANGED callVars

\* the caller has the result
AnalysisReturns ==
  /\ analysis.pc = "returned"
  /\ analysis' = [ NoAnalysis EXCEPT !.count = analysis.count ]
  /\ UNCHANGED << callVars, service >>

otherThanAnalysis == << storeVars, fileVars, batch, fanout, cliVars, routeVars >>

NextAnalyze ==
  \/ /\ UNCHANGED otherThanCalls
     /\ \E geminiKeys, mistralKeys \in 0 .. MaxKeys :
          LoadServices(geminiKeys, mistralKeys)
  \/ /\ UNCHANGED otherThanAnalysis
     /\ \E build \in Builds : AnalyzeCompany(build)
  \/ /\ UNCHANGED otherThanAnalysis
     /\ TryProvider
  \/ /\ UNCHANGED otherThanCalls
     /\ analysis.pc = "await"
     /\ SettleSome
  \/ /\ UNCHANGED otherThanAnalysis
     /\ ProviderDone
  \/ /\ UNCHANGED otherThanAnalysis
     /\ AnalysisReturns

SpecAnalyze == Init /\ [][NextAnalyze]_vars

(***************************************************************************)
(* The command-line build: searchGoogle, page by page, and the loop of     *)
(* main that calls it for each search term.  page.goto either loads the    *)
(* page or throws (navigation error, timeout); the catch block of          *)
(* searchGoogle turns the throw into an empty result.                      *)
(***************************************************************************)
otherThanProspect ==
  << companies, companiesMtime, companiesIndex, companiesLastLoad, stats,
     cache, now, ticks, tasks, runs, navigations, savedKeys, learningUpdates,
     lastRun, running, preemptions, fileVars, batch, callVars, service,
     fanout, analysis, routeVars >>

ScrapeOver == scraper.pc \in { "idle", "returned" }

\* searchGoogle(page, searchTerm, maxPages) up to its first page.goto
EnterSearchGoogle(maxPages) ==
  [ NoScrape EXCEPT !.pc = "goto", !.maxPages = maxPages,
                    !.calls = scraper.calls + 1 ]

\* a call of searchGoogle from outside the loop of main
SearchGoogle(maxPages) ==
  /\ prospect.pc = "idle"
  /\ ScrapeOver
  /\ scraper.calls < MaxScrapes
  /\ scraper' = EnterSearchGoogle(maxPages)
  /\ UNCHANGED << learning, prospect >>

\* await page.goto(googleUrl, { timeout: 30000 })
Goto(ok) ==
  LET went == [ scraper EXCEPT !.gotos = Append(@, StartParam(scraper.pageNum)) ]
  IN  /\ scraper.pc = "goto"
      /\ scraper' =
           IF ~ok THEN [ went EXCEPT !.pc = "returned", !.exit = "error",
                                     !.results = 0 ]
           ELSE IF scraper.pageNum = 0 THEN [ went EXCEPT !.pc = "check" ]
           ELSE [ went EXCEPT !.pc = "extract" ]
      /\ UNCHANGED << learning, prospect >>

\* if (pageNum === 0): isLoggedIn, hasCaptcha and the branch on them
CheckCaptcha(isLoggedIn, hasCaptcha) ==
  LET seen == [ scraper EXCEPT !.checked = TRUE, !.isLoggedIn = isLoggedIn,
                               !.hasCaptcha = hasCaptcha ]
  IN  /\ scraper.pc = "check"
      /\ scraper' =
           IF Aborts(hasCaptcha, isLoggedIn)
             THEN [ seen EXCEPT !.pc = "returned", !.exit = "blocked",
                                !.results = 0 ]
           ELSE IF hasCaptcha THEN [ seen EXCEPT !.pc = "recheck" ]
           ELSE [ seen EXCEPT !.pc = "extract" ]
      /\ UNCHANGED << learning, prospect >>

\* await page.waitForTimeout(5000); stillHasCaptcha = ...; both branches log
Recheck(stillHasCaptcha) ==
  /\ scraper.pc = "recheck"
  /\ scraper' = [ scraper EXCEPT !.pc = "extract", !.rechecks = @ + 1,
                                 !.stillHasCaptcha = stillHasCaptcha ]
  /\ UNCHANGED << learning, prospect >>

\* pageResults = await page.evaluate(...); allResults.push(...pageResults);
\* the break on an empty page and the end of the for loop
Extract(found) ==
  LET got == [ scraper EXCEPT !.extracted = Append(@, found),
                              !.allResults = @ + found ]
  IN  /\ scraper.pc = "extract"
      /\ scraper' =
           IF Stops(found, scraper.pageNum)
             THEN [ got EXCEPT !.pc = "returned", !.exit = "break",
                               !.results = got.allResults ]
           ELSE IF scraper.pageNum + 1 < scraper.maxPages
             THEN [ got EXCEPT !.pc = "goto", !.pageNum = @ + 1 ]
           ELSE [ got EXCEPT !.pc = "returned", !.exit = "done",
                             !.pageNum = @ + 1, !.results = got.allResults ]
      /\ UNCHANGED << learning, prospect >>

\* main up to its loop: searchTerms = generateSmartSearchTerms(...)
Main(terms) ==
  /\ prospect.pc = "idle"
  /\ ScrapeOver
  /\ prospect' = [ NoProspect EXCEPT !.pc = "loop", !.terms = terms ]
  /\ UNCHANGED << learning, scraper >>

\* for (let i = 0; i < searchTerms.length; i++): searchGoogle(page, item.term)
BeginSearch ==
  /\ prospect.pc = "loop"
  /\ prospect.i < prospect.terms
  /\ scraper' = EnterSearchGoogle(DEFAULT_MAX_PAGES)
  /\ prospect' = [ prospect EXCEPT !.pc = "search" ]
  /\ UNCHANGED learning

\* the rest of the loop body: too few results is a failure, otherwise the
\* results are analysed; updateLearning is called on either path
AfterSearch(valid) ==
  LET results == scraper.results
      failed == results < MIN_RESULTS
      found == IF failed THEN 0 ELSE valid
      item == SearchTermOf(prospect.i)
  IN  /\ prospect.pc = "search"
      /\ scraper.pc = "returned"
      /\ valid <= Analyzed(results)
      /\ failed => valid = 0
      /\ learning' = UpdateLearning(learning, item, item[2], item[1],
                                    "google_search", found, now)
      /\ prospect' =
           [ prospect EXCEPT
               !.pc = "loop",
               !.i = IF failed THEN ContinueLoop(@, prospect.terms) ELSE @ + 1,
               !.updates = Append(@, found),
               !.exits = Append(@, scraper.exit) ]
      /\ UNCHANGED scraper

\* the loop is over: main saves the results and returns
EndLoop ==
  /\ prospect.pc = "loop"
  /\ prospect.i >= prospect.terms
  /\ prospect' = [ prospect EXCEPT !.pc = "done" ]
  /\ UNCHANGED << learning, scraper >>

NextProspect ==
  \/ /\ UNCHANGED otherThanProspect
     /\ \E maxPages \in 1 .. MaxPages : SearchGoogle(maxPages)
  \/ /\ UNCHANGED otherThanProspect
     /\ \E ok \in BOOLEAN : Goto(ok)
  \/ /\ UNCHANGED otherThanProspect
     /\ \E isLoggedIn \in BOOLEAN, hasCaptcha \in BOOLEAN :
           CheckCaptcha(isLoggedIn, hasCaptcha)
  \/ /\ UNCHANGED otherThanProspect
     /\ \E stillHasCaptcha \in BOOLEAN : Recheck(stillHasCaptcha)
  \/ /\ UNCHANGED otherThanProspect
     /\ \E found \in 0 .. MaxPageResults : Extract(found)
  \/ /\ UNCHANGED otherThanProspect
     /\ \E terms \in 1 .. MaxSearchTerms : Main(terms)
  \/ /\ UNCHANGED otherThanProspect
     /\ BeginSearch
  \/ /\ UNCHANGED otherThanProspect
     /\ \E valid \in 0 .. MAX_RESULTS_PER_SEARCH : AfterSearch(valid)
  \/ /\ UNCHANGED otherThanProspect
     /\ EndLoop

SpecProspect == Init /\ [][NextProspect]_vars

(***************************************************************************)
(* server.js: the sync route.  sync_from_cloud sends the client the stored *)
(* learning record; merge_data merges the learning record of the request's *)
(* body into the stored one.  Both sides of a merge are parsed from JSON   *)
(* text, the stored record by getLearningData and the local one by the     *)
(* body parser, so every event of the two lists is an object of its own.   *)
(* The requests modelled carry a learning record and neither companies nor *)
(* stats, so that the two loops over those are skipped.                    *)
(***************************************************************************)
otherThanMerge ==
  << companies, companiesMtime, companiesIndex, companiesLastLoad, stats,
     cache, now, ticks, tasks, runs, navigations, savedKeys, learningUpdates,
     lastRun, running, preemptions, fileVars, batch, callVars, service,
     fanout, cliVars, analysis, driver, aiValidation >>

\* A Set holds one of two elements that are the same value, which for two
\* objects means the same reference: positions i and j of the combined list
\* of events hold the same reference only when i = j.
SameValueZero(combined, i, j) == i = j

RECURSIVE UniqueBySet(_, _)
\* [...new Set(combined)], from position i on
UniqueBySet(combined, i) ==
  IF i > Len(combined) THEN << >>
  ELSE IF \E j \in 1 .. (i - 1) : SameValueZero(combined, i, j)
    THEN UniqueBySet(combined, i + 1)
    ELSE << combined[i] >> \o UniqueBySet(combined, i + 1)

DigitOf(c) == CHOOSE d \in 0 .. 9 : DigitChar(d) = c

\* the code unit of a character of a toFixed string
CharCode(c) == IF c = "." THEN 46 ELSE 48 + DigitOf(c)

RECURSIVE CodeUnitsGreater(_, _)
\* a > b for two strings: by code units, a proper prefix being the smaller
CodeUnitsGreater(a, b) ==
  IF a = << >> THEN FALSE
  ELSE IF b = << >> THEN TRUE
  ELSE IF Head(a) # Head(b) THEN CharCode(Head(a)) > CharCode(Head(b))
  ELSE CodeUnitsGreater(Tail(a), Tail(b))

RECURSIVE DigitsValue(_)
DigitsValue(digits) ==
  IF digits = << >> THEN 0
  ELSE 10 * DigitsValue(SubSeq(digits, 1, Len(digits) - 1))
         + DigitOf(digits[Len(digits)])

\* Number(rate), in hundredths
RateValue(rate) ==
  IF rate.isString
    THEN DigitsValue(SelectSeq(rate.chars, LAMBDA c : c # "."))
    ELSE 100 * DigitsValue(rate.chars)

\* a rate is falsy when it is the number 0; a toFixed string is never empty
Truthy(rate) == rate.isString \/ RateValue(rate) # 0

\* a > b for two rates: two strings by code units, otherwise as numbers
GreaterRate(a, b) ==
  IF a.isString /\ b.isString THEN CodeUnitsGreater(a.chars, b.chars)
                              ELSE RateValue(a) > RateValue(b)

\* mergedLearning, from the spread of cloudLearning to the save
MergeLearning(cloudLearning, local) ==
  LET arrays ==
        [ cloudLearning EXCEPT
            !.successfulSearches = UniqueBySet(@ \o local.successfulSearches, 1),
            !.failedSearches = UniqueBySet(@ \o local.failedSearches, 1) ]
      cloudRate ==
        IF Truthy(arrays.successRate) THEN arrays.successRate ELSE NumberZero
  IN  [ arrays EXCEPT
          !.totalSearches =
             IF local.totalSearches # 0 /\ local.totalSearches > @
               THEN local.totalSearches ELSE @,
          !.successRate =
             IF Truthy(local.successRate) /\ GreaterRate(local.successRate, cloudRate)
               THEN local.successRate ELSE @ ]

\* sync_from_cloud: the client keeps the learning record it is sent
SyncFromCloud ==
  /\ AllIdle
  /\ sync.local # learning
  /\ sync' = [ sync EXCEPT !.local = learning ]
  /\ UNCHANGED << learning, otherThanMerge >>

\* merge_data with the learning record the client holds
MergeData ==
  /\ AllIdle
  /\ sync.local # NoLearning
  /\ sync.merges < MaxMerges
  /\ learning' = MergeLearning(learning, sync.local)
  /\ sync' = [ sync EXCEPT !.merges = @ + 1 ]
  /\ UNCHANGED otherThanMerge

\* update_learning and sync requests, one at a time
NextMerge ==
  \/ /\ UNCHANGED << fileVars, aiVars >>
     /\ \E i \in SearchIndices, strategy \in Strategies, found \in FoundCounts :
           StartUpdateLearning(1, i, strategy, found)
  \/ /\ UNCHANGED << fileVars, aiVars >>
     /\ StorageRead(1)
  \/ /\ UNCHANGED << fileVars, aiVars >>
     /\ StorageWrite(1)
  \/ /\ UNCHANGED << fileVars, aiVars >>
     /\ Respond(1)
  \/ SyncFromCloud
  \/ MergeData

SpecMerge == Init /\ [][NextMerge]_vars

(***************************************************************************)
(* A client of the search route that starts at searchIndex 0 and sends the *)
(* nextSearchIndex of each response in its next request for as long as the *)
(* response says hasMore.  The handler takes the parallel path when        *)
(* Math.min(parallelSearches, 3) exceeds 1 and the sequential path         *)
(* otherwise; the cached, the replayed and the scraped response of the     *)
(* sequential path carry the same nextSearchIndex and hasMore.  The catch  *)
(* block answers 500 without the two fields, which ends the loop.          *)
(***************************************************************************)
otherThanDrive ==
  << storeVars, fileVars, batch, callVars, service, fanout, cliVars, analysis,
     sync, aiValidation >>

\* const actualParallel = Math.min(parallelSearches, 3)
ActualParallel(parallelSearches) ==
  IF parallelSearches < MAX_PARALLEL THEN parallelSearches ELSE MAX_PARALLEL

\* nextSearchIndex: searchIndex + 1, hasMore: searchIndex + 1 < maxSearches
HandlerResponse(searchIndex, maxSearches, found) ==
  [ status |-> 200, success |-> TRUE, resultsFound |-> found,
    nextSearchIndex |-> searchIndex + 1,
    hasMore |-> searchIndex + 1 < maxSearches ]

\* res.status(500).json({ success: false, error, searchIndex })
ErrorResponse(searchIndex) ==
  [ status |-> 500, success |-> FALSE, searchIndex |-> searchIndex ]

\* the promises of a fan-out once each has fulfilled or rejected
SettledPromises(promises, rejected, found) ==
  [ k \in DOMAIN promises |->
      IF k \in rejected
        THEN [ promises[k] EXCEPT !.status = "rejected",
                                  !.reason = "Cannot read properties of undefined (reading 'push')" ]
        ELSE [ promises[k] EXCEPT
                 !.status = "fulfilled", !.resultsFound = found,
                 !.results = [ j \in 1 .. found |-> << promises[k].index, j >> ] ] ]

\* the indices a fan-out has started a search for
IndicesOf(promises) == [ k \in DOMAIN promises |-> promises[k].index ]

\* the client starts its loop
StartDrive(maxSearches, parallelSearches) ==
  /\ driver.pc = "idle"
  /\ driver.drives < MaxDrives
  /\ driver' = [ NoDrive EXCEPT !.pc = "request", !.maxSearches = maxSearches,
                                !.parallelSearches = parallelSearches,
                                !.drives = driver.drives + 1 ]

\* a request that takes the sequential path, up to its response
SequentialRequest(found, threw) ==
  /\ driver.pc = "request"
  /\ ~ (ActualParallel(driver.parallelSearches) > 1)
  /\ driver' = [ driver EXCEPT
                   !.pc = "response",
                   !.attempted = Append(@, driver.searchIndex),
                   !.response =
                      IF threw THEN ErrorResponse(driver.searchIndex)
                               ELSE HandlerResponse(driver.searchIndex,
                                                    driver.maxSearches, found) ]

\* a request that takes the parallel path, up to its response
ParallelRequest(rejected, found) ==
  LET parallelCount == ActualParallel(driver.parallelSearches)
      promises == PromisesFor(driver.searchIndex, driver.maxSearches, parallelCount)
  IN  /\ driver.pc = "request"
      /\ parallelCount > 1
      /\ rejected \subseteq DOMAIN promises
      /\ driver' = [ driver EXCEPT
                       !.pc = "response",
                       !.attempted = @ \o IndicesOf(promises),
                       !.response =
                          BatchResponse(SettledPromises(promises, rejected, found),
                                        driver.searchIndex, driver.maxSearches,
                                        parallelCount) ]

\* the client reads the response: another request, or the end of the loop
NextRequest ==
  /\ driver.pc = "response"
  /\ driver' =
       IF driver.response.status # 200 THEN [ driver EXCEPT !.pc = "failed" ]
       ELSE IF driver.response.hasMore
         THEN [ driver EXCEPT !.pc = "request",
                              !.searchIndex = driver.response.nextSearchIndex ]
         ELSE [ driver EXCEPT !.pc = "done" ]

\* a step of a loop that has started
DriveStep ==
  \/ /\ UNCHANGED otherThanDrive
     /\ \E found \in 0 .. MaxResults, threw \in BOOLEAN :
          SequentialRequest(found, threw)
  \/ /\ UNCHANGED otherThanDrive
     /\ \E rejected \in SUBSET (1 .. MAX_PARALLEL), found \in 0 .. MaxResults :
          ParallelRequest(rejected, found)
  \/ /\ UNCHANGED otherThanDrive
     /\ NextRequest

NextDrive ==
  \/ /\ UNCHANGED otherThanDrive
     /\ \E maxSearches \in 1 .. MaxDriveSearches,
           parallelSearches \in 0 .. MaxParallelSearches :
          StartDrive(maxSearches, parallelSearches)
  \/ DriveStep

\* every request is answered and the client goes on with its loop
SpecDrive == Init /\ [][NextDrive]_vars /\ WF_vars(DriveStep)

(***************************************************************************)
(* search.js: validateWithAI and the loop of the handler that calls it.    *)
(* A text is a sequence of tokens: the two braces, three members of a JSON *)
(* object, and words.  analyzeCompany answers with the text of a model or, *)
(* when no model is available, with a fixed text around the title of the   *)
(* company; reading the text of an answer that has none throws.            *)
(***************************************************************************)
otherThanFinal ==
  << storeVars, fileVars, batch, callVars, service, fanout, cliVars, analysis,
     sync, driver >>

MemberTokens == { "\"isValid\": true", "\"isValid\": false", "\"reason\": \"ok\"" }

WordTokens == { "não é", "inválido", "empresa", "potencial" }

TextTokens == { "{", "}" } \cup MemberTokens \cup WordTokens

Texts == UNION { [ 1 .. n -> TextTokens ] : n \in 0 .. MaxTokens }

\* token.toLowerCase().includes(marker)
TokenIncludes(token, marker) ==
  \/ token = "não é" /\ marker = "não é"
  \/ token = "inválido" /\ marker \in { "inválid", "válid" }
  \/ token = "empresa" /\ marker = "empresa"

\* content.includes(marker)
Includes(text, marker) ==
  \E n \in DOMAIN text : TokenIncludes(text[n], marker)

\* the fixed text of analyzeCompany: Empresa: title, Tipo, Bairro, Potencial
FallbackAnalysis(title) == << "empresa" >> \o title \o << "potencial" >>

\* analysis.analysis.match(/\{[\s\S]*\}/): from the first { to the last }
HasMatch(text) ==
  \E i, j \in DOMAIN text : i < j /\ text[i] = "{" /\ text[j] = "}"

JsonMatch(text) ==
  LET first == CHOOSE i \in DOMAIN text :
                 text[i] = "{" /\ \A k \in 1 .. (i - 1) : text[k] # "{"
      last == CHOOSE j \in DOMAIN text :
                text[j] = "}" /\ \A k \in (j + 1) .. Len(text) : text[k] # "}"
  IN  SubSeq(text, first, last)

\* JSON.parse accepts the match when the braces hold members only
Parses(match) ==
  \A n \in 2 .. (Len(match) - 1) : match[n] \in MemberTokens

\* parsed.isValid || false: the last isValid member decides
ParsedIsValid(match) ==
  LET stated == { n \in DOMAIN match :
                    match[n] \in { "\"isValid\": true", "\"isValid\": false" } }
  IN  /\ stated # {}
      /\ match[CHOOSE n \in stated : \A k \in stated : k <= n] = "\"isValid\": true"

\* the catch block of the parse: no negative marker and some positive one
TextFallback(text) ==
  /\ ~ Includes(text, "não é")
  /\ ~ Includes(text, "inválid")
  /\ \/ Includes(text, "válid")
     \/ Includes(text, "empresa")
     \/ Includes(text, "comercial")
     \/ Includes(text, "negócio")

\* the object validateWithAI returns for an outcome of analyzeCompany
ValidationOf(outcome, text) ==
  IF outcome = "threw" THEN [ isValid |-> TRUE, confidence |-> 30 ]
  ELSE IF ~ HasMatch(text) THEN [ isValid |-> TRUE, confidence |-> 50 ]
  ELSE IF Parses(JsonMatch(text))
    THEN [ isValid |-> ParsedIsValid(JsonMatch(text)), confidence |-> 50 ]
    ELSE [ isValid |-> TextFallback(text), confidence |-> 70 ]

\* validateWithAI(result), up to its return
ValidateWithAI(outcome, tokens) ==
  LET text == IF outcome = "fallback" THEN FallbackAnalysis(tokens)
              ELSE IF outcome = "threw" THEN << >> ELSE tokens
      returned == ValidationOf(outcome, text)
  IN  /\ aiValidation.pc = "idle"
      /\ aiValidation.calls < MaxFinalValidations
      /\ outcome = "threw" => tokens = << >>
      /\ aiValidation' = [ pc |-> "returned", outcome |-> outcome, text |-> text,
                           isValid |-> returned.isValid,
                           confidence |-> returned.confidence, kept |-> FALSE,
                           calls |-> aiValidation.calls + 1 ]

\* if (aiValidation.isValid) aiValidatedResults.push(...)
KeepApproved ==
  /\ aiValidation.pc = "returned"
  /\ aiValidation' = [ aiValidation EXCEPT !.pc = "decided",
                                           !.kept = aiValidation.isValid ]

NextFinal ==
  \/ /\ UNCHANGED otherThanFinal
     /\ \E outcome \in { "model", "fallback", "threw" }, tokens \in Texts :
          ValidateWithAI(outcome, tokens)
  \/ /\ UNCHANGED otherThanFinal
     /\ KeepApproved

SpecFinal == Init /\ [][NextFinal]_vars

(***************************************************************************)
(* Claims about the orchestrator and the companies file.                   *)
(***************************************************************************)

\* C1: once a term's completion record has been written, a run for that term
\* that starts later does not navigate: it ends CACHE_HIT or SKIPPED.
C1_CompletedTermIsNotScrapedAgain ==
  \A s \in Slots :
    tasks[s].late =>
      /\ tasks[s].navs = 0
      /\ tasks[s].outcome \in { "none", "CACHE_HIT", "SKIPPED" }

\* C2: a step of a run that ended CACHE_HIT or SKIPPED leaves the stats, the
\* learning record and the companies file as they were.
C2_ReplayedRunWritesNothing ==
  [][ (\E s \in Slots :
         /\ tasks[s].outcome \in { "CACHE_HIT", "SKIPPED" }
         /\ tasks'[s] # tasks[s])
        => UNCHANGED << stats, learning, companies >> ]_vars

AgeOf(entry) == now - entry.timestamp

NeverStale(table, ttl) ==
  \A i \in 1 .. Len(table) :
    LET got == GetCached(table, table[i].key, now, ttl)
    IN  /\ got.hit => AgeOf(table[i]) <= ttl
        /\ AgeOf(table[i]) = ttl + 1 => ~got.hit

\* C4: getCachedSearchResult and getCachedCompanyAnalysis return no value
\* whose age is above the lifetime of its kind (24 hours, 7 days); an entry
\* of age lifetime + 1 and a search result 25 hours old are reported absent.
C4_NoStaleValueIsReturned ==
  /\ NeverStale(cache.searchResults, SEARCH_TTL_MS)
  /\ NeverStale(cache.companyAnalyses, ANALYSIS_TTL_MS)
  /\ \A key \in KeysOf(cache.searchResults) :
       LET got == GetCachedSearchResult(cache, key, now)
           age == AgeOf(cache.searchResults[PositionOf(cache.searchResults, key)])
       IN  /\ got.hit => age <= SEARCH_TTL_MS
           /\ age = 25 * 60 * 60 * 1000 => ~got.hit
  /\ \A id \in KeysOf(cache.companyAnalyses) :
       LET got == GetCachedCompanyAnalysis(cache, id, now)
           age == AgeOf(cache.companyAnalyses[PositionOf(cache.companyAnalyses, id)])
       IN  got.hit => age <= ANALYSIS_TTL_MS

\* a search result of age lifetime + 1 is in the file and is reported absent,
\* next to a company analysis of the same age that is still reported
C4_ExpiredEntryIsAbsent ==
  /\ \E key \in KeysOf(cache.searchResults) :
       /\ AgeOf(cache.searchResults[PositionOf(cache.searchResults, key)])
            = SEARCH_TTL_MS + 1
       /\ ~GetCachedSearchResult(cache, key, now).hit
  /\ \E id \in KeysOf(cache.companyAnalyses) :
       /\ AgeOf(cache.companyAnalyses[PositionOf(cache.companyAnalyses, id)])
            = SEARCH_TTL_MS + 1
       /\ GetCachedCompanyAnalysis(cache, id, now).hit

EntriesOf(table) == { table[i] : i \in 1 .. Len(table) }

\* a write of `key` at capacity `capacity` into `table`: what it keeps is
\* within the capacity, is taken from the table with the written entry, and
\* nothing it drops is newer than anything it keeps; it drops nothing unless
\* the table is over capacity, and then no more than it has to
WithinCapacityOldestOut(table, key, capacity) ==
  LET offered == EntriesOf(TableSet(table, key, {}, now))
      kept == EntriesOf(SetCached(table, key, {}, now, capacity))
      dropped == offered \ kept
  IN  /\ Len(SetCached(table, key, {}, now, capacity)) <= capacity
      /\ kept \subseteq offered
      /\ \A k \in kept, d \in dropped : k.timestamp >= d.timestamp
      /\ Cardinality(kept) =
           IF Cardinality(offered) > capacity THEN capacity
                                              ELSE Cardinality(offered)

\* C5: after a cache write the table holds at most its capacity, and the
\* entries a write removes are those with the smallest timestamps.
C5_WithinCapacityOldestEvicted ==
  /\ \A key \in SearchCacheKeys, capacity \in Capacities :
       WithinCapacityOldestOut(cache.searchResults, key, capacity)
  /\ \A id \in AnalysisCacheKeys, capacity \in Capacities :
       WithinCapacityOldestOut(cache.companyAnalyses, id, capacity)

\* a full table of two entries of different age, after three writes: the
\* third write dropped the oldest entry
C5_OldestEntryWasEvicted ==
  /\ runs = 3
  /\ Len(cache.searchResults) = 2
  /\ cache.searchResults[1].timestamp > cache.searchResults[2].timestamp
  /\ cache.searchResults[2].timestamp > 1

(***************************************************************************)
(* Claims about the learning record.                                       *)
(***************************************************************************)

\* C6: no update of co-scheduled updateLearning calls is lost: once the
\* tasks have returned, totalSearches is the number of completed calls and
\* every aiCall's event is in successfulSearches or failedSearches.
C6_NoLearningUpdateIsLost ==
  AllIdle =>
    /\ learning.totalSearches = learningUpdates
    /\ Len(learning.successfulSearches) + Len(learning.failedSearches)
         = learningUpdates

\* C7: once the co-scheduled tasks have returned, every key that a saveCompany
\* call wrote (companies and completion records) is in the companies file.
C7_EverySavedCompanyIsStored ==
  AllIdle => savedKeys \subseteq DOMAIN companies

CharDigit(c) == CHOOSE d \in 0 .. 9 : DigitChar(d) = c

RECURSIVE CharsToNat(_)
CharsToNat(chars) ==
  IF chars = << >> THEN 0
  ELSE (10 * CharsToNat(SubSeq(chars, 1, Len(chars) - 1)))
         + CharDigit(chars[Len(chars)])

IsDigitChar(c) == \E d \in 0 .. 9 : DigitChar(d) = c

\* the text is digits, a point and two digits
IsFixed2(chars) ==
  /\ Len(chars) >= 4
  /\ chars[Len(chars) - 2] = "."
  /\ \A i \in 1 .. Len(chars) : i # Len(chars) - 2 => IsDigitChar(chars[i])

\* the number of hundredths the text stands for
HundredthsOfText(chars) ==
  (100 * CharsToNat(SubSeq(chars, 1, Len(chars) - 3)))
    + CharsToNat(SubSeq(chars, Len(chars) - 1, Len(chars)))

Abs(x) == IF x < 0 THEN 0 - x ELSE x

\* C9: the stored successRate is 100 * |successfulSearches| / totalSearches
\* rounded to 2 decimals, and 0 while totalSearches is 0; from the empty
\* record, one update that found 3 gives totalSearches 1, successRate
\* "100.00" and 3 for the neighborhood.
C9_SuccessRateIsTheRoundedRatio ==
  LET total == learning.totalSearches
      successes == Len(learning.successfulSearches)
      rate == learning.successRate
  IN  /\ total = 0 => rate = NumberZero
      /\ total > 0 =>
           /\ rate.isString
           /\ IsFixed2(rate.chars)
           /\ 2 * Abs((HundredthsOfText(rate.chars) * total) - (10000 * successes))
                <= total
      /\ (/\ learningUpdates = 1
          /\ successes = 1
          /\ learning.successfulSearches[1].companiesFound = 3)
           => /\ total = 1
              /\ rate = StringOf(<< "1", "0", "0", ".", "0", "0" >>)
              /\ learning.bestNeighborhoods[
                   learning.successfulSearches[1].neighborhood] = 3

\* two successes in three searches are stored as "66.67"
C9_TwoThirdsRoundsUp ==
  /\ learning.totalSearches = 3
  /\ Len(learning.successfulSearches) = 2
  /\ learning.successRate = StringOf(<< "6", "6", ".", "6", "7" >>)

\* `new` is `old` with `d` added at `k` and every other entry as it was
AddedAt(old, new, k, d) ==
  /\ DOMAIN new = (DOMAIN old) \cup { k }
  /\ new[k] = GetOr0(old, k) + d
  /\ \A x \in (DOMAIN old) \ { k } : new[x] = old[x]

\* `new` is `old` with one event appended
OneAppended(old, new) ==
  /\ Len(new) = Len(old) + 1
  /\ SubSeq(new, 1, Len(old)) = old

\* C10: with foundCount > 0 a call appends one success event and adds
\* foundCount to the neighborhood's, the business type's and the strategy's
\* score, leaving the other entries and failedSearches as they were; with
\* foundCount <= 0 it appends one failure event and leaves the three maps
\* and successfulSearches as they were.
C10_UpdateTouchesOnlyItsOwnEntries ==
  [][ (learningUpdates' # learningUpdates) =>
        LET call == Head(tasks[1].calls)
            found == call.n
        IN  IF found > 0
              THEN /\ OneAppended(learning.successfulSearches,
                                  learning'.successfulSearches)
                   /\ learning'.successfulSearches[
                        Len(learning'.successfulSearches)].companiesFound = found
                   /\ learning'.failedSearches = learning.failedSearches
                   /\ AddedAt(learning.bestNeighborhoods,
                              learning'.bestNeighborhoods, call.key[1], found)
                   /\ AddedAt(learning.bestBusinessTypes,
                              learning'.bestBusinessTypes, call.key[2], found)
                   /\ AddedAt(learning.bestStrategies,
                              learning'.bestStrategies,
                              StrategyOf(call.key[3]), found)
              ELSE /\ OneAppended(learning.failedSearches,
                                  learning'.failedSearches)
                   /\ learning'.successfulSearches = learning.successfulSearches
                   /\ learning'.bestNeighborhoods = learning.bestNeighborhoods
                   /\ learning'.bestBusinessTypes = learning.bestBusinessTypes
                   /\ learning'.bestStrategies = learning.bestStrategies ]_vars

\* a success that found 2 and a failure have been stored
C10_SuccessAndFailureStored ==
  /\ learningUpdates = 2
  /\ Len(learning.successfulSearches) = 1
  /\ learning.successfulSearches[1].companiesFound = 2
  /\ Len(learning.failedSearches) = 1
  /\ Cardinality(DOMAIN learning.bestStrategies) = 1

(***************************************************************************)
(* Claims about the learning file.                                         *)
(***************************************************************************)

\* C11: the learning file always holds one complete snapshot, the one before
\* the save in progress or the one being saved: a reader (or a restart after
\* a crash) never finds it empty or partly written.
C11_ReaderSeesACompleteSnapshot ==
  /\ learningBytes = "all"
  /\ saver.pc # "idle" => learning \in { saver.previous, saver.data }

\* C12: whatever the learning file holds (nothing, text that does not parse,
\* an object lacking fields), updateLearning does not throw and the record
\* it saves has all seven fields, with a number in totalSearches.
C12_UpdateRepairsAnyRecord ==
  /\ ~ saver.threw
  /\ (saver.kind = "update" /\ saver.pc = "done") =>
        /\ DOMAIN learning = LearningFields
        /\ learning.totalSearches \in Nat

(***************************************************************************)
(* Claims about the term generator.                                        *)
(***************************************************************************)

\* C13: generateSmartSearchTerms(maxTerms) returns at most maxTerms tasks,
\* for every maxTerms >= 0 and every learning record.
C13_AtMostMaxTerms == Len(batch.searchTerms) <= batch.maxTerms

\* a call with maxTerms > 0 that returned exactly maxTerms tasks
C13_ExactlyMaxTerms ==
  /\ batch.called
  /\ batch.maxTerms > 0
  /\ Len(batch.searchTerms) = batch.maxTerms

\* the tasks of the batch that carry a strategy
TasksOf(strategy) ==
  Cardinality({ i \in 1 .. Len(batch.searchTerms) :
                  batch.searchTerms[i].strategy = strategy })

\* the priority list as stated: top 3 by score, then the canonical four,
\* duplicates removed keeping the first occurrence
StatedPriority ==
  FirstOccurrences(Slice(Sorted(batch.bestStrategies), 3)
                     \o << "gmaps_local", "social_media", "new_business",
                           "direct_web" >>)

StatedWeight(k) == IF 4 - k > 1 THEN 4 - k ELSE 1

RECURSIVE StatedTotal(_)
StatedTotal(n) == IF n = 0 THEN 0 ELSE StatedWeight(n - 1) + StatedTotal(n - 1)

\* C14: the strategy at index k (from 0) of the priority list has weight
\* max(1, 4 - k) and gets exactly floor(weight / totalWeight * maxTerms)
\* tasks, so a strategy never gets fewer tasks than one ranked below it.
C14_TasksFollowTheRanking ==
  batch.called =>
    LET list == StatedPriority
        total == StatedTotal(Len(list))
    IN  /\ \A k \in 1 .. Len(list) :
             TasksOf(list[k]) =
               (StatedWeight(k - 1) * batch.maxTerms) \div total
        /\ \A j, k \in 1 .. Len(list) :
             j < k => TasksOf(list[j]) >= TasksOf(list[k])

\* C15: no two tasks of one batch have the same term.
C15_NoTwoTasksShareATerm ==
  \A i, j \in 1 .. Len(batch.searchTerms) :
    i # j => batch.searchTerms[i].term # batch.searchTerms[j].term

(***************************************************************************)
(* Claims about the validator.                                             *)
(***************************************************************************)

\* C16: the heuristic is a function of the signal sets with score =
\* |positive| - 2 * |negative|: any negative signal rejects, otherwise a
\* score of 3 or more accepts and of 1 or less rejects, and the model is
\* consulted only with no negative signal and a score of exactly 2.
C16_HeuristicDecidesOutsideTheBand ==
  (validation.pc \in { "asking", "done" } /\ validation.loaded) =>
    LET p == Cardinality(validation.positive)
        n == Cardinality(validation.negative)
    IN  /\ validation.score = p - (2 * n)
        /\ validation.consulted <=> (n = 0 /\ p - (2 * n) = 2)
        /\ (validation.pc = "done" /\ n > 0) => ~ validation.verdict
        /\ (validation.pc = "done" /\ n = 0 /\ p >= 3) => validation.verdict
        /\ (validation.pc = "done" /\ n = 0 /\ p <= 1) => ~ validation.verdict

\* a page on a social-media domain with every positive signal is rejected
\* without a model call
C16_SocialPageRejectedUnasked ==
  /\ validation.pc = "done"
  /\ validation.loaded
  /\ validation.positive = POSITIVE_SIGNALS
  /\ validation.negative = { "social" }
  /\ ~ validation.verdict
  /\ ~ validation.consulted
  /\ aiCall.pc = "idle"

\* the first word of a text, in upper case where it is s, i or m
RECURSIVE FirstWord(_)
FirstWord(chars) ==
  IF chars = << >> \/ Head(chars) \notin WordChars THEN << >>
  ELSE << CASE Head(chars) = "s" -> "S"
            [] Head(chars) = "i" -> "I"
            [] Head(chars) = "m" -> "M"
            [] OTHER -> Head(chars) >> \o FirstWord(Tail(chars))

\* C17: in the ambiguous band the verdict is accept exactly when the
\* model's response begins with the word SIM in any case; a null response
\* (every provider failed) is a reject.
C17_AcceptsExactlySIM ==
  (validation.pc = "done" /\ validation.consulted) =>
    (validation.verdict <=>
       (~ aiCall.response.isNull
          /\ FirstWord(aiCall.response.text) = << "S", "I", "M" >>))

\* a validation in the band that accepted on a lower-case "sim"
C17_LowerCaseSimAccepted ==
  /\ validation.pc = "done"
  /\ validation.consulted
  /\ validation.verdict
  /\ aiCall.response = Text(<< "s", "i", "m" >>)

\* C18: a validation, with or without a model call, changes no global
\* state: not the key rotation indices, the learning record or the company
\* store.
C18_ValidationChangesNoGlobal ==
  [][ (validation.pc # "idle" \/ validation'.pc # "idle") =>
        UNCHANGED << currentGeminiIndex, currentMistralIndex, learning,
                     companies >> ]_vars

(***************************************************************************)
(* Claims about model calls.                                               *)
(***************************************************************************)

\* C19: every model call ends after finitely many requests, whatever fails:
\* a generateContent that has sent a request returns or throws, and an
\* analyzeWithAI that was entered returns.
C19_EveryModelCallEnds ==
  /\ (service.pc = "request") ~> (service.pc \in { "returned", "threw" })
  /\ (aiCall.pc \in { "gemini", "mistral" }) ~> (aiCall.pc = "returned")

(***************************************************************************)
(* Claims about the fan-out.                                               *)
(***************************************************************************)

Rejected == { k \in DOMAIN fanout.promises :
                fanout.promises[k].status = "rejected" }

Succeeded == { k \in DOMAIN fanout.promises :
                 fanout.promises[k].status = "fulfilled" }

\* C20: the batch responds only when every task has settled, with HTTP
\* success; the response holds the results of every task that fulfilled and
\* lists every rejected task, once, with its search index and its error.
C20_RejectionsDoNotAbortSiblings ==
  fanout.pc = "responded" =>
    LET r == fanout.response
        p == fanout.promises
    IN  /\ Rejected \cup Succeeded = DOMAIN p
        /\ r.status = 200 /\ r.success
        /\ r.searchesPerformed = Cardinality(Succeeded)
        /\ { r.results[j] : j \in DOMAIN r.results }
             = UNION { { << p[k].index, j >> : j \in 1 .. p[k].resultsFound } :
                       k \in Succeeded }
        /\ Len(r.results) = r.totalResults
        /\ Len(r.errors) = Cardinality(Rejected)
        /\ { << r.errors[j].index, r.errors[j].error >> : j \in DOMAIN r.errors }
             = { << p[k].index, p[k].reason >> : k \in Rejected }

\* a batch that responded with one task rejected and a sibling's results
C20_RespondedWithOneRejected ==
  /\ fanout.pc = "responded"
  /\ Cardinality(Rejected) = 1
  /\ \E k \in Succeeded : k > 1 /\ fanout.promises[k].resultsFound > 0
  /\ Len(fanout.response.results) > 0
  /\ fanout.promises[1].status = "rejected"


(***************************************************************************)
(* Claims about the scraper and the loop of the command-line build.        *)
(***************************************************************************)

\* C21: once the first page has been examined, searchGoogle has returned
\* for a block exactly when the page showed a challenge and no signed-in
\* account, and then with no result, no second navigation and no extraction;
\* with a challenge and a signed-in account it re-checks once and goes on to
\* extract the page, whatever the re-check showed.
C21_AbortsOnlyOnChallengeWithoutSession ==
  scraper.checked =>
    /\ (scraper.exit = "blocked") <=> (scraper.hasCaptcha /\ ~scraper.isLoggedIn)
    /\ scraper.exit = "blocked" =>
         /\ scraper.pc = "returned"
         /\ scraper.results = 0
         /\ Len(scraper.gotos) = 1
         /\ scraper.extracted = << >>
         /\ scraper.rechecks = 0
    /\ (scraper.hasCaptcha /\ scraper.isLoggedIn) =>
         IF scraper.pc = "recheck"
           THEN scraper.rechecks = 0 /\ scraper.extracted = << >>
           ELSE /\ scraper.rechecks = 1
                /\ scraper.pc = "extract" \/ Len(scraper.extracted) >= 1
    /\ ~scraper.hasCaptcha => scraper.rechecks = 0

\* a challenge that was still there at the re-check, and the page extracted
C21_ExtractedDespiteChallenge ==
  /\ scraper.checked
  /\ scraper.hasCaptcha
  /\ scraper.isLoggedIn
  /\ scraper.stillHasCaptcha
  /\ scraper.rechecks = 1
  /\ Len(scraper.extracted) >= 1
  /\ scraper.extracted[1] > 0

\* C27: searchGoogle navigates to pages 1, 2, ... in order, page k at offset
\* (k - 1) * 10 and never beyond maxPages; a page other than the first that
\* yields nothing is the last one navigated to; an empty first page does not
\* end the search; without an error or an empty page all maxPages are seen.
C27_PagesInOrderUntilAnEmptyOne ==
  LET gotos == scraper.gotos
      extracted == scraper.extracted
  IN  /\ Len(gotos) <= scraper.maxPages
      /\ \A k \in 1 .. Len(gotos) : OffsetOf(gotos[k]) = (k - 1) * 10
      /\ \A k \in 2 .. Len(extracted) :
           extracted[k] = 0 =>
             /\ scraper.pc = "returned"
             /\ scraper.exit = "break"
             /\ Len(gotos) = k
      /\ (Len(extracted) >= 1 /\ extracted[1] = 0 /\ scraper.maxPages > 1) =>
           ~(scraper.pc = "returned" /\ Len(gotos) = 1)
      /\ (scraper.pc = "returned" /\ scraper.exit = "done") =>
           Len(gotos) = scraper.maxPages
      /\ (scraper.pc = "returned" /\ scraper.exit = "break") =>
           extracted[Len(extracted)] = 0

\* an empty first page, a second page with results, an empty third page
C27_StoppedAtEmptyThirdPage ==
  /\ scraper.pc = "returned"
  /\ scraper.exit = "break"
  /\ scraper.extracted = << 0, 1, 0 >>
  /\ scraper.gotos = << << >>, << "start", 10 >>, << "start", 20 >> >>

\* the updateLearning calls the persistence stage of a scrape makes
LearningCalls(calls) ==
  { k \in 1 .. Len(calls) : calls[k].f = "updateLearning" }

\* C22: in the loop of main every task that is over has made exactly one
\* updateLearning call, with zero found when its scrape was given up for a
\* block or ended on a navigation error, and that call appended one failure
\* event; the loop goes on to the next task and ends only after the last
\* one.  The persistence stage of the handler and of performSingleSearch
\* after a scrape that yielded nothing holds exactly one updateLearning
\* call, with zero found.
C22_FailedTaskRecordsOneFailure ==
  LET updates == prospect.updates
      failures == { k \in 1 .. Len(updates) : updates[k] = 0 }
  IN  /\ Len(updates) = Len(prospect.exits)
      /\ prospect.pc \in { "loop", "search" } => Len(updates) = prospect.i
      /\ prospect.pc = "done" => Len(updates) = prospect.terms
      /\ \A k \in 1 .. Len(updates) :
           prospect.exits[k] \in { "blocked", "error" } => updates[k] = 0
      /\ learning.totalSearches = Len(updates)
      /\ Len(learning.failedSearches) = Cardinality(failures)
      /\ \A term \in Terms :
           LET calls == CallsAfterScrape(term, {}, now)
           IN  /\ Cardinality(LearningCalls(calls)) = 1
               /\ \A k \in LearningCalls(calls) : calls[k].n = 0

\* a run of two tasks: the first given up for a block, the second ended by
\* a navigation error, one failure event for each
C22_BlockedThenFailedTask ==
  /\ prospect.pc = "done"
  /\ prospect.exits = << "blocked", "error" >>
  /\ prospect.updates = << 0, 0 >>
  /\ Len(learning.failedSearches) = 2

(***************************************************************************)
(* Claims about the outcome and the stages of one search task.             *)
(***************************************************************************)

\* the task went through the scrape and its browser failed before a page
BrowserFailed(t) == t.outcome = "SCRAPED" /\ t.navs = 0

\* C23: a task whose browser failed is not given the outcome of a finished
\* scrape: it queues no write of the completion record of its term, and no
\* task returns as scraped without having loaded a page.
C23_BrowserFailureIsNotADoneTask ==
  /\ \A s \in Slots :
       BrowserFailed(tasks[s]) =>
         \A k \in 1 .. Len(tasks[s].calls) :
           tasks[s].calls[k].key # SearchKey(tasks[s].term)
  /\ lastRun.outcome = "SCRAPED" => lastRun.navs > 0

\* the stage of the persistence a storage call belongs to
Stage(call, term) ==
  CASE call.f = "saveCompany" /\ call.key # SearchKey(term) -> 1
    [] call.f = "saveCompany" -> 2
    [] call.f = "setCachedSearchResult" -> 2
    [] call.f = "updateLearning" -> 4
    [] call.f = "recordMetric" -> 5
    [] OTHER -> 3

\* the calls are queued stage by stage
InStageOrder(calls, term) ==
  \A j, k \in 1 .. Len(calls) :
    j < k => Stage(calls[j], term) <= Stage(calls[k], term)

\* C24: the step that ends the validation of a task's results writes
\* nothing and leaves the task's writes queued in the order companies,
\* completion record and cache entry, statistics, updateLearning; every
\* later write of the task is the first of that queue, so a stage is
\* written only when the stages before it have been.
C24_StagesInOrder ==
  [][ \A s \in Slots :
        LET t == tasks[s]
            after == tasks'[s]
        IN  /\ (t.pc = "scrape" /\ after.pc = "persist") =>
                 /\ UNCHANGED << companies, cache, learning, stats >>
                 /\ InStageOrder(after.calls, t.term)
            /\ (/\ t.pc = "persist"
                /\ t.outcome = "SCRAPED"
                /\ t.phase = "write"
                /\ after.phase = "read") =>
                 /\ after.calls = Tail(t.calls)
                 /\ \A k \in 1 .. Len(after.calls) :
                      Stage(after.calls[k], t.term)
                        >= Stage(Head(t.calls), t.term)
                 /\ Stage(Head(t.calls), t.term) \in { 1, 2 } =>
                      learning' = learning
                 /\ Stage(Head(t.calls), t.term) = 1 =>
                      cache' = cache /\ SearchKey(t.term) \notin savedKeys'
            /\ t.pc = "scrape" => SearchKey(t.term) \notin savedKeys
    ]_vars

\* a scraped task about to call updateLearning: its company, its completion
\* record and its cache entry are written
C24_LearningAfterTheWrites ==
  \E s \in Slots :
    LET t == tasks[s]
    IN  /\ t.pc = "persist"
        /\ t.outcome = "SCRAPED"
        /\ t.calls # << >>
        /\ Head(t.calls).f = "updateLearning"
        /\ Head(t.calls).n > 0
        /\ SearchKey(t.term) \in savedKeys
        /\ \E u \in Urls : CompanyKey(u) \in savedKeys
        /\ PositionOf(cache.searchResults, t.term) > 0

\* C30: when a scraped task has returned, the results it returned are the
\* ones its cache entry holds, and their number is the resultsCount of its
\* completion record.
C30_ReturnedIsPersisted ==
  (AllIdle /\ lastRun.outcome = "SCRAPED") =>
    LET look == GetCompany(companies, SearchKey(lastRun.term))
        pos == PositionOf(cache.searchResults, lastRun.term)
    IN  /\ look.found
        /\ look.rec.resultsCount = Cardinality(lastRun.results)
        /\ pos > 0
        /\ cache.searchResults[pos].data = lastRun.results

\* the keys of the companies file that hold a CompanyRecord
CompanyKeys(companiesRead) ==
  { k \in DOMAIN companiesRead : companiesRead[k].url # NoUrl }

\* C25: no step changes the url, the searchTerm or the foundAt of a stored
\* CompanyRecord, removes the record, or takes its analysis away.
C25_CompanyRecordKeepsItsFields ==
  [][ \A k \in CompanyKeys(companies) :
        /\ k \in DOMAIN companies'
        /\ companies'[k].url = companies[k].url
        /\ companies'[k].searchTerm = companies[k].searchTerm
        /\ companies'[k].foundAt = companies[k].foundAt
        /\ companies[k].deepAnalysis => companies'[k].deepAnalysis
    ]_vars

(***************************************************************************)
(* Claims about analyzeCompany.                                            *)
(***************************************************************************)

\* the provider has a key and its call was not made, or returned a text
NotFailed(provider) ==
  apiKeys[provider] > 0 /\ analysis[provider] # "threw"

\* C26: a result of analyzeCompany is tagged gemini only when the Gemini
\* call returned a text, mistral only when Gemini has no key or its call
\* failed and the Mistral call returned a text, fallback only when each
\* provider has no key or its call failed; a provider with a key is called
\* before a later one is tried.
C26_ResultFollowsTheProviderChain ==
  analysis.pc = "returned" =>
    /\ analysis.provider \in { "gemini", "mistral", "fallback" }
    /\ analysis.provider = "gemini" => analysis.gemini = "returned"
    /\ analysis.provider = "mistral" =>
         ~NotFailed("gemini") /\ analysis.mistral = "returned"
    /\ analysis.provider = "fallback" =>
         ~NotFailed("gemini") /\ ~NotFailed("mistral")

(***************************************************************************)
(* Claims about the search cache and the replay of a completed search.     *)
(***************************************************************************)

\* C28: getCachedSearchResult returns the data of a term exactly when the
\* term has an entry whose age is at most 24 hours, an entry exactly 24
\* hours old included.
C28_EntryUpToADayOldIsReturned ==
  \A key \in SearchCacheKeys :
    LET got == GetCachedSearchResult(cache, key, now)
        pos == PositionOf(cache.searchResults, key)
    IN  /\ got.hit <=>
             (pos > 0 /\ AgeOf(cache.searchResults[pos]) <= SEARCH_TTL_MS)
        /\ got.hit => got.data = cache.searchResults[pos].data

\* the CompanyRecords stored for a term
CompaniesOf(term) ==
  { companies[k] : k \in { x \in CompanyKeys(companies) :
                             companies[x].searchTerm = term } }

\* C29: a replayed (SKIPPED) run returns exactly the CompanyRecords stored
\* for its term, the completion record of the term not among them.
C29_ReplayReturnsTheCompanies ==
  \A s \in Slots :
    (tasks[s].pc = "persist" /\ tasks[s].outcome = "SKIPPED") =>
      /\ \A r \in tasks[s].results : r.completedAt = 0 /\ r.foundAt # 0
      /\ tasks[s].results = CompaniesOf(tasks[s].term)

(***************************************************************************)
(* Claims about the keys of companies and the writes of the cache.         *)
(***************************************************************************)

\* C31: no save replaces the record of a company by the record of a company
\* with another url, URLs that share the head their key is cut from
\* included.
C31_SaveNeverOverwritesAnotherUrl ==
  [][ \A k \in CompanyKeys(companies) \cap DOMAIN companies' :
        companies'[k].url # NoUrl => companies'[k].url = companies[k].url
    ]_vars

\* a write of `key` into `table` leaves an entry that a get at the same
\* instant returns
WrittenIsReturned(table, key, capacity, ttl) ==
  LET after == SetCached(table, key, {}, now, capacity)
  IN  /\ PositionOf(after, key) > 0
      /\ GetCached(after, key, now, ttl).hit
      /\ GetCached(after, key, now, ttl).data = {}

\* C32: whatever the table holds, a write of a key is followed by a hit for
\* that key at the same instant, also when the write evicts and entries
\* share a timestamp.
C32_WrittenEntryIsReturned ==
  /\ \A key \in SearchCacheKeys, capacity \in Capacities :
       WrittenIsReturned(cache.searchResults, key, capacity, SEARCH_TTL_MS)
  /\ \A id \in AnalysisCacheKeys, capacity \in Capacities :
       WrittenIsReturned(cache.companyAnalyses, id, capacity, ANALYSIS_TTL_MS)

(***************************************************************************)
(* Claims about failed and concurrent scrapes.                             *)
(***************************************************************************)

\* C33: when a task whose browser failed has returned, the companies file
\* holds no completion record for its term and the cache no entry for it.
C33_FailedScrapeLeavesNoRecord ==
  (AllIdle /\ BrowserFailed(lastRun)) =>
    /\ ~Has(companies, SearchKey(lastRun.term))
    /\ PositionOf(cache.searchResults, lastRun.term) = 0

\* the task has navigated the browser for its term
Navigated(t) == t.outcome = "SCRAPED" /\ t.navs > 0

\* C34: no two invocations of the handler in flight for the same term have
\* both navigated the browser for it (and so both queued updateLearning).
C34_OneInvocationScrapesATerm ==
  \A s, r \in Slots :
    (s # r /\ tasks[s].mode = "handler" /\ tasks[r].mode = "handler"
       /\ tasks[s].term = tasks[r].term) =>
      ~(Navigated(tasks[s]) /\ Navigated(tasks[r]))

(***************************************************************************)
(* Claims about the totals of the learning record.                         *)
(***************************************************************************)

RECURSIVE SumOfScores(_, _)
\* the sum of the scores of a map over a set of its keys
SumOfScores(map, keys) ==
  IF keys = {} THEN 0
  ELSE LET k == CHOOSE x \in keys : TRUE
       IN  map[k] + SumOfScores(map, keys \ { k })

RECURSIVE SumOfFound(_)
\* the sum of companiesFound over a list of events
SumOfFound(events) ==
  IF events = << >> THEN 0
  ELSE Head(events).companiesFound + SumOfFound(Tail(events))

\* C35: after any number of updateLearning calls made one after the other
\* from the default record, totalSearches is the number of success events
\* plus the number of failure events, and the scores of each of the three
\* maps add up to the companiesFound of the success events.
C35_TotalsMatchTheEvents ==
  AllIdle =>
    LET found == SumOfFound(learning.successfulSearches)
    IN  /\ learning.totalSearches =
             Len(learning.successfulSearches) + Len(learning.failedSearches)
        /\ SumOfScores(learning.bestNeighborhoods,
                       DOMAIN learning.bestNeighborhoods) = found
        /\ SumOfScores(learning.bestBusinessTypes,
                       DOMAIN learning.bestBusinessTypes) = found
        /\ SumOfScores(learning.bestStrategies,
                       DOMAIN learning.bestStrategies) = found

\* three updates: two successes that share a neighbourhood and a failure
C35_TwoSuccessesOneFailure ==
  /\ AllIdle
  /\ Len(learning.successfulSearches) = 2
  /\ Len(learning.failedSearches) = 1
  /\ \E n \in DOMAIN learning.bestNeighborhoods :
       learning.bestNeighborhoods[n] = SumOfFound(learning.successfulSearches)
  /\ SumOfFound(learning.successfulSearches) > 2

(***************************************************************************)
(* Claims about the sync route.                                            *)
(***************************************************************************)

\* the events of a list
EventsOf(events) == { events[n] : n \in DOMAIN events }

\* the stored record holds every event of the local one
Contains(cloudLearning, local) ==
  /\ EventsOf(local.successfulSearches) \subseteq EventsOf(cloudLearning.successfulSearches)
  /\ EventsOf(local.failedSearches) \subseteq EventsOf(cloudLearning.failedSearches)

\* C36: a merge_data request whose learning events the stored record holds
\* already leaves the two lists of events as they were, so that merging the
\* same data a second time changes nothing.
C36_MergeOfKnownEventsChangesNothing ==
  [][ (sync'.merges = sync.merges + 1 /\ Contains(learning, sync.local)) =>
        /\ learning'.successfulSearches = learning.successfulSearches
        /\ learning'.failedSearches = learning.failedSearches ]_vars

(***************************************************************************)
(* Claims about a loop over the search route.                              *)
(***************************************************************************)

\* how many times the loop has had a search started for index i
TimesAttempted(i) ==
  Cardinality({ n \in DOMAIN driver.attempted : driver.attempted[n] = i })

HasParsedVerdict(text) == HasMatch(text) /\ Parses(JsonMatch(text))

\* the text holds a negative marker
HasNegativeMarker(text) == Includes(text, "não é") \/ Includes(text, "inválid")

\* C38: validateWithAI answers isValid = true whenever no model is available,
\* the analysis throws or the response holds no JSON verdict that parses; it
\* answers isValid = false only when a parsed verdict says isValid false or
\* the text fallback finds a negative marker.
C38_RejectsOnlyOnANegativeVerdict ==
  aiValidation.pc # "idle" =>
    /\ ( \/ aiValidation.outcome \in { "fallback", "threw" }
         \/ ~ HasParsedVerdict(aiValidation.text) ) => aiValidation.isValid
    /\ ~ aiValidation.isValid =>
         \/ /\ HasParsedVerdict(aiValidation.text)
            /\ \E n \in DOMAIN aiValidation.text :
                 aiValidation.text[n] = "\"isValid\": false"
         \/ /\ HasMatch(aiValidation.text)
            /\ ~ Parses(JsonMatch(aiValidation.text))
            /\ HasNegativeMarker(aiValidation.text)

=============================================================================
